---- MODULE Spec2Model ----
(***************************************************************************)
(* Account Store and Streak Engine (backend/database.py), Favorites        *)
(* Ledger (backend/json_storage.py), handlers (app.py) and Catalog Lookup  *)
(* (backend/google_books_api.py) of the personal library tracker, as a     *)
(* state machine.                                                          *)
(*                                                                         *)
(* Spec      handlers run one at a time, each as one atomic action; the    *)
(*           clock moves and streaks are updated; every account is made    *)
(*           with the same password and salt (credentials play no part in  *)
(*           the streak engine).                                           *)
(* ReadSpec  the part of Spec that makes, updates and reads streaks.        *)
(* AuthSpec  handlers run one at a time; register and authenticate with    *)
(*           every username, password and salt.                            *)
(* ConcSpec  register calls of several requests interleave between their   *)
(*           SELECT and their INSERT (one connection per call, no lock).   *)
(* LedgerSpec      the calls of json_storage, one at a time, on two books. *)
(* ShelfSpec       the same calls on three books, with the favorites page. *)
(* LedgerConcSpec  ledger calls of several requests interleave between     *)
(*           their load, their open for writing and their dump.            *)
(* DaySpec   update_reading_streak calls of several requests interleave    *)
(*           between their SELECT and their UPDATE, and the day changes.   *)
(* FrameSpec the calls of the Account Store and of the ledger side by side.*)
(* RaceSpec  add and remove calls of several requests interleave, and each *)
(*           remembers which writes came before its load and its dump.     *)
(* AppSpec   the page-progress handler over the ledger and the accounts.   *)
(* SessionSpec  the handlers of app.py with and without a user id in the   *)
(*           session, one request at a time.                               *)
(* FaultSpec    calls that meet a storage fault (sqlite3, the ledger file).*)
(* CatalogSpec  search_books (backend/google_books_api.py) on every answer *)
(*           of the provider, one lookup at a time.                        *)
(* SearchSpec   search requests of several clients wait for the provider;  *)
(*           weak fairness for the handler's own steps.                    *)
(***************************************************************************)
EXTENDS Integers, Sequences, FiniteSets, TLC

\* ---------------------------------------------------------------- bounds
MaxDay == 3            \* the wall clock shows a day in 0..MaxDay
DaysPerMonth == 2      \* length of a month of the model's calendar
NumProcs == 2          \* concurrent requests of ConcSpec

Days == 0..MaxDay
Procs == 1..NumProcs
Usernames == {"alice", "bob"}
Passwords == {"pw1", "pw2"}
Salts == {"s1", "s2"}       \* values bcrypt.gensalt() may draw
\* user ids a caller may pass: every id a row can have, and one that never has a row
UserIds == 1..(Cardinality(Usernames) + 1)

VARIABLES
    users,       \* table 'users': sequence of rows, users[i].id = i (AUTOINCREMENT, no delete)
    now,         \* the day datetime.now().date() shows
    ret,         \* the last completed call of Spec: arguments, row fetched, value returned
    registered,  \* history: the (username, password, id) of every register that returned True
    pc,          \* ConcSpec, DaySpec: where each request stands in its call
    loc,         \* ConcSpec, DaySpec: local variables of each request
    outcome,     \* ConcSpec: how the last register call of each request ended
    trueCount,   \* ConcSpec history: per username, the register calls that returned True
    dayStart,    \* DaySpec history: per user id, the current_streak when the day began,
                 \* and whether a call begun before the day has written the row since
    file,        \* favorites.json: missing, unreadable, or holding a ledger
    lret,        \* the last completed call on the ledger: its name, arguments and result
    lpc,         \* LedgerConcSpec: where each request stands in its read-modify-write
    lloc         \* LedgerConcSpec: the call and the all_favorites copy of each request

vars == <<users, now, ret, registered, pc, loc, outcome, trueCount, dayStart,
          file, lret, lpc, lloc>>

ledgerVars == <<file, lret, lpc, lloc>>

\* Python's None, and a fetched row / optional value
None == <<>>
Some(x) == <<x>>

Max(a, b) == IF a > b THEN a ELSE b

\* an empty dict, and d[k] = v on a dict (a function from its keys)
EmptyDict == [k \in {} |-> <<>>]
\* faulty variant: the dict is made anew with the one key
DictSetAlone(d, k, v) == [x \in {k} |-> v]
DictSet(d, k, v) == [x \in DOMAIN d \cup {k} |-> IF x = k THEN v ELSE d[x]]

\* ------------------------------------------------------- dates and hashes
\* today.strftime('%Y-%m-%d'): the date as text, month then day of month
Strftime(d) == <<d \div DaysPerMonth, d % DaysPerMonth>>

\* datetime.strptime(s, '%Y-%m-%d').date()
Strptime(s) == s[1] * DaysPerMonth + s[2]

\* hashlib.sha256(username): deterministic and injective
hash_username(username) == <<"sha256", username>>

\* bcrypt.hashpw(password, salt): the salt is part of the hash
hash_password(password, salt) == <<"bcrypt", salt, password>>

\* faulty variant: the password is not compared
check_password_any(hashed_password, password) == hashed_password[1] = "bcrypt"

\* bcrypt.checkpw: hash the password again with the salt of the stored hash
check_password(hashed_password, password) ==
    hashed_password = hash_password(password, hashed_password[2])

check_username_hash(stored_hash, username) == stored_hash = hash_username(username)

\* --------------------------------------------------------------- the table
\* INSERT INTO users (username, password): the other columns take their defaults
NewRow(id, hashed_username, hashed_password) ==
    [id |-> id, username |-> hashed_username, password |-> hashed_password,
     last_read_date |-> None, current_streak |-> 0, longest_streak |-> 0]

\* SELECT * FROM users WHERE username = ? ; fetchone()
SelectByUsername(tbl, hashed_username) ==
    LET hits == {i \in 1..Len(tbl) : tbl[i].username = hashed_username}
    IN  IF hits = {} THEN None
        ELSE Some(tbl[CHOOSE i \in hits : \A j \in hits : i <= j])

\* SELECT ... FROM users WHERE id = ? ; fetchone()
SelectById(tbl, user_id) ==
    IF user_id \in 1..Len(tbl) THEN Some(tbl[user_id]) ELSE None

\* faulty variant: the column username is declared without UNIQUE
NoUniqueConstraint(tbl, hashed_username) == FALSE

\* username TEXT NOT NULL UNIQUE: an INSERT of a username already stored fails
UniqueViolation(tbl, hashed_username) ==
    \E i \in 1..Len(tbl) : tbl[i].username = hashed_username

InsertUser(tbl, hashed_username, hashed_password) ==
    Append(tbl, NewRow(Len(tbl) + 1, hashed_username, hashed_password))

\* faulty variant: the UPDATE has WHERE id <= ?
UpdateUserUpTo(tbl, user_id, last, current, longest) ==
    [i \in 1..Len(tbl) |->
        IF tbl[i].id <= user_id
        THEN [tbl[i] EXCEPT !.last_read_date = last,
                            !.current_streak = current,
                            !.longest_streak = longest]
        ELSE tbl[i]]

\* faulty variant: the UPDATE has no WHERE clause
UpdateUserEveryRow(tbl, user_id, last, current, longest) ==
    [i \in 1..Len(tbl) |->
        [tbl[i] EXCEPT !.last_read_date = last,
                       !.current_streak = current,
                       !.longest_streak = longest]]

\* faulty variant: the UPDATE leaves last_read_date out
UpdateUserNoDate(tbl, user_id, last, current, longest) ==
    [i \in 1..Len(tbl) |->
        IF tbl[i].id = user_id
        THEN [tbl[i] EXCEPT !.current_streak = current, !.longest_streak = longest]
        ELSE tbl[i]]

\* UPDATE users SET last_read_date, current_streak, longest_streak WHERE id = ?
UpdateUser(tbl, user_id, last, current, longest) ==
    [i \in 1..Len(tbl) |->
        IF tbl[i].id = user_id
        THEN [tbl[i] EXCEPT !.last_read_date = last,
                            !.current_streak = current,
                            !.longest_streak = longest]
        ELSE tbl[i]]

\* SELECT last_read_date, current_streak, longest_streak FROM users WHERE id = ?
SelectStreak(tbl, user_id) ==
    IF user_id \in 1..Len(tbl)
    THEN Some([last_read_date |-> tbl[user_id].last_read_date,
               current_streak |-> tbl[user_id].current_streak,
               longest_streak |-> tbl[user_id].longest_streak])
    ELSE None

\* ----------------------------------------------------------- streak engine
\* last_read_date = strptime(last_read_date_str).date() if last_read_date_str else None
ParseLastRead(last_read_date_str) ==
    IF last_read_date_str # None THEN Some(Strptime(last_read_date_str)) ELSE None

\* faulty variant: a last read date that is not in the past counts as read today
StreakStatusFutureUnchanged(last_read_date, today) ==
    IF last_read_date # None /\ last_read_date[1] >= today THEN "unchanged"
    ELSE IF last_read_date = Some(today - 1) THEN "continued"
    ELSE "reset"

\* faulty variant: no branch for a second update on the same day
StreakStatusNoUnchanged(last_read_date, today) ==
    IF last_read_date = Some(today - 1) THEN "continued" ELSE "reset"

\* faulty variant: a first update counts as a continuation
StreakStatusFirstContinued(last_read_date, today) ==
    IF last_read_date = Some(today) THEN "unchanged"
    ELSE IF last_read_date = Some(today - 1) \/ last_read_date = None THEN "continued"
    ELSE "reset"

\* faulty variant: an update on the last read day counts as a continuation
StreakStatusTodayContinued(last_read_date, today) ==
    IF last_read_date = Some(today) \/ last_read_date = Some(today - 1) THEN "continued"
    ELSE "reset"

\* the if / elif / else on last_read_date
StreakStatus(last_read_date, today) ==
    IF last_read_date = Some(today) THEN "unchanged"
    ELSE IF last_read_date = Some(today - 1) THEN "continued"
    ELSE "reset"

\* faulty variant: a streak that is reset starts at 0
NextCurrentResetZero(streak_status, current_streak) ==
    IF streak_status = "unchanged" THEN current_streak
    ELSE IF streak_status = "continued" THEN current_streak + 1
    ELSE 0

\* faulty variant: a continued streak starts again at 1
NextCurrentNoIncrement(streak_status, current_streak) ==
    IF streak_status = "unchanged" THEN current_streak ELSE 1

\* current_streak after the branch taken
NextCurrent(streak_status, current_streak) ==
    IF streak_status = "unchanged" THEN current_streak
    ELSE IF streak_status = "continued" THEN current_streak + 1
    ELSE 1

\* faulty variant: the longest streak is set to the current one
NextLongestFollowsCurrent(current_streak, longest_streak) == current_streak

\* faulty variant: the longest streak is never raised
NextLongestNeverRaised(current_streak, longest_streak) == longest_streak

\* if current_streak > longest_streak: longest_streak = current_streak
NextLongest(current_streak, longest_streak) ==
    IF current_streak > longest_streak THEN current_streak ELSE longest_streak

\* update_reading_streak, from the fetched row to the values written and returned
StreakTransition(user_data, today) ==
    LET data == IF user_data # None THEN user_data[1]
                ELSE [last_read_date |-> None, current_streak |-> 0, longest_streak |-> 0]
        last_read_date == ParseLastRead(data.last_read_date)
        streak_status == StreakStatus(last_read_date, today)
        current_streak == NextCurrent(streak_status, data.current_streak)
        longest_streak == NextLongest(current_streak, data.longest_streak)
    IN  [current_streak |-> current_streak, longest_streak |-> longest_streak,
         last_read_date |-> Some(today), streak_status |-> streak_status]

\* what update_reading_streak returns when sqlite3 reports an error
StreakError ==
    [current_streak |-> 0, longest_streak |-> 0,
     last_read_date |-> None, streak_status |-> "error"]

\* faulty variant: the SELECT has no WHERE clause, the first row is fetched
StreakDataOfFirstRow(tbl, user_id) ==
    IF Len(tbl) > 0
    THEN [current_streak |-> tbl[1].current_streak,
          longest_streak |-> tbl[1].longest_streak,
          last_read_date |-> tbl[1].last_read_date]
    ELSE [current_streak |-> 0, longest_streak |-> 0, last_read_date |-> None]

\* what get_user_streak_data returns from the table
StreakDataOf(tbl, user_id) ==
    LET result == SelectById(tbl, user_id)
    IN  IF result # None
        THEN [current_streak |-> result[1].current_streak,
              longest_streak |-> result[1].longest_streak,
              last_read_date |-> result[1].last_read_date]
        ELSE [current_streak |-> 0, longest_streak |-> 0, last_read_date |-> None]

\* the loop of authenticate_user over the fetched rows: the first row that matches
AuthScan(tbl, username, password) ==
    LET hits == {i \in 1..Len(tbl) :
                    /\ check_username_hash(tbl[i].username, username)
                    /\ check_password(tbl[i].password, password)}
    IN  IF hits = {} THEN None
        ELSE LET i == CHOOSE k \in hits : \A j \in hits : k <= j
             IN  <<tbl[i].id, tbl[i].username, tbl[i].password>>

\* ------------------------------------------------------------------- Init
NoCall == [op |-> "none"]

Init ==
    /\ users = <<>>
    /\ now \in Days
    /\ ret = NoCall
    /\ registered = {}
    /\ pc = [p \in Procs |-> "idle"]
    /\ loc = [p \in Procs |-> None]
    /\ outcome = [p \in Procs |-> NoCall]
    /\ trueCount = [u \in Usernames |-> 0]
    /\ dayStart = [id \in UserIds |-> [current_streak |-> 0, late_write |-> FALSE]]
    /\ file = [state |-> "missing", data |-> EmptyDict]
    /\ lret = NoCall
    /\ lpc = [p \in Procs |-> "idle"]
    /\ lloc = [p \in Procs |-> None]

concVars == <<pc, loc, outcome, trueCount, dayStart>>

\* ------------------------------------------------ Spec: one call at a time
\* faulty variant: register_user without the SELECT for an existing user
register_user_nocheck(username, password, salt) ==
    LET hashed_username == hash_username(username)
        hashed_password == hash_password(password, salt)
    IN  /\ IF UniqueViolation(users, hashed_username)
           THEN /\ ret' = [op |-> "register", username |-> username,
                           password |-> password, result |-> "IntegrityError"]
                /\ UNCHANGED <<users, registered>>
           ELSE /\ users' = InsertUser(users, hashed_username, hashed_password)
                /\ registered' = registered \cup
                       {[username |-> username, password |-> password,
                         id |-> Len(users) + 1]}
                /\ ret' = [op |-> "register", username |-> username,
                           password |-> password, result |-> "True"]
        /\ UNCHANGED <<now, concVars, ledgerVars>>

\* register_user(username, password); salt is the value bcrypt.gensalt() draws
register_user(username, password, salt) ==
    LET hashed_username == hash_username(username)
        hashed_password == hash_password(password, salt)
        existing_user == SelectByUsername(users, hashed_username)
    IN  /\ IF existing_user # None
           THEN /\ ret' = [op |-> "register", username |-> username,
                           password |-> password, result |-> "False"]
                /\ UNCHANGED <<users, registered>>
           ELSE IF UniqueViolation(users, hashed_username)
           THEN /\ ret' = [op |-> "register", username |-> username,
                           password |-> password, result |-> "IntegrityError"]
                /\ UNCHANGED <<users, registered>>
           ELSE /\ users' = InsertUser(users, hashed_username, hashed_password)
                /\ registered' = registered \cup
                       {[username |-> username, password |-> password,
                         id |-> Len(users) + 1]}
                /\ ret' = [op |-> "register", username |-> username,
                           password |-> password, result |-> "True"]
        /\ UNCHANGED <<now, concVars, ledgerVars>>

\* authenticate_user(username, password)
authenticate_user(username, password) ==
    /\ ret' = [op |-> "authenticate", username |-> username, password |-> password,
               result |-> AuthScan(users, username, password)]
    /\ UNCHANGED <<users, now, registered, concVars, ledgerVars>>

\* update_reading_streak(user_id), no sqlite3 error
update_reading_streak(user_id) ==
    LET user_data == SelectStreak(users, user_id)
        today == now
        r == StreakTransition(user_data, today)
    IN  /\ users' = UpdateUser(users, user_id, Strftime(today),
                               r.current_streak, r.longest_streak)
        /\ ret' = [op |-> "update_streak", user_id |-> user_id,
                   user_data |-> user_data, result |-> r]
        /\ UNCHANGED <<now, registered, concVars, ledgerVars>>

\* update_reading_streak(user_id) when a statement raises sqlite3.Error:
\* nothing is committed and the error values are returned
update_reading_streak_error(user_id) ==
    /\ ret' = [op |-> "update_streak", user_id |-> user_id,
               user_data |-> None, result |-> StreakError]
    /\ UNCHANGED <<users, now, registered, concVars, ledgerVars>>

\* get_user_streak_data(user_id)
get_user_streak_data(user_id) ==
    /\ ret' = [op |-> "get_streak", user_id |-> user_id,
               result |-> StreakDataOf(users, user_id)]
    /\ UNCHANGED <<users, now, registered, concVars, ledgerVars>>

\* the wall clock: datetime.now() may show any day, later or earlier than before
SetClock(d) ==
    /\ d # now
    /\ now' = d
    /\ UNCHANGED <<users, ret, registered, concVars, ledgerVars>>

Next ==
    \/ \E u \in Usernames : register_user(u, "pw1", "s1")
    \/ \E u \in Usernames, p \in Passwords : authenticate_user(u, p)
    \/ \E id \in UserIds : update_reading_streak(id)
    \/ \E id \in UserIds : update_reading_streak_error(id)
    \/ \E id \in UserIds : get_user_streak_data(id)
    \/ \E d \in Days : SetClock(d)

Spec == Init /\ [][Next]_vars

\* the calls that make, change and read the streaks, and the clock
ReadNext ==
    \/ \E u \in Usernames : register_user(u, "pw1", "s1")
    \/ \E id \in UserIds : update_reading_streak(id)
    \/ \E id \in UserIds : get_user_streak_data(id)
    \/ \E d \in Days : SetClock(d)

ReadSpec == Init /\ [][ReadNext]_vars

AuthNext ==
    \/ \E u \in Usernames, p \in Passwords, s \in Salts : register_user(u, p, s)
    \/ \E u \in Usernames, p \in Passwords : authenticate_user(u, p)

AuthSpec == Init /\ [][AuthNext]_vars

\* ------------------------------------- ConcSpec: register calls interleave
\* register_user up to the existence check: hash, SELECT, fetchone, return False
RegSelect(p, username, password, salt) ==
    LET hashed_username == hash_username(username)
        hashed_password == hash_password(password, salt)
        existing_user == SelectByUsername(users, hashed_username)
    IN  /\ pc[p] = "idle"
        /\ IF existing_user # None
           THEN /\ outcome' = [outcome EXCEPT ![p] =
                       [op |-> "register", username |-> username, result |-> "False"]]
                /\ UNCHANGED <<pc, loc>>
           ELSE /\ pc' = [pc EXCEPT ![p] = "insert"]
                /\ loc' = [loc EXCEPT ![p] =
                       Some([username |-> username, password |-> password,
                             hashed_username |-> hashed_username,
                             hashed_password |-> hashed_password])]
                /\ UNCHANGED outcome
        /\ UNCHANGED <<users, now, ret, registered, trueCount, dayStart, ledgerVars>>

\* register_user from the INSERT on: INSERT, commit, return True; the UNIQUE
\* constraint makes the INSERT raise sqlite3.IntegrityError, which is raised again
RegInsert(p) ==
    /\ pc[p] = "insert"
    /\ LET l == loc[p][1]
       IN  IF UniqueViolation(users, l.hashed_username)
           THEN /\ outcome' = [outcome EXCEPT ![p] =
                       [op |-> "register", username |-> l.username,
                        result |-> "IntegrityError"]]
                /\ UNCHANGED <<users, registered, trueCount>>
           ELSE /\ users' = InsertUser(users, l.hashed_username, l.hashed_password)
                /\ registered' = registered \cup
                       {[username |-> l.username, password |-> l.password,
                         id |-> Len(users) + 1]}
                /\ trueCount' = [trueCount EXCEPT ![l.username] = @ + 1]
                /\ outcome' = [outcome EXCEPT ![p] =
                       [op |-> "register", username |-> l.username, result |-> "True"]]
    /\ pc' = [pc EXCEPT ![p] = "idle"]
    /\ loc' = [loc EXCEPT ![p] = None]
    /\ UNCHANGED <<now, ret, dayStart, ledgerVars>>

ConcNext ==
    \/ \E p \in Procs, u \in Usernames : RegSelect(p, u, "pw1", "s1")
    \/ \E p \in Procs : RegInsert(p)

ConcSpec == Init /\ [][ConcNext]_vars

\* ================================================= Favorites Ledger
\* session user ids of the ledger's callers, ISBNs, and the other inputs
LedgerUserIds == {1, 2}
Isbns == {"123", "456", "789"}
LedgerIsbns == {"123", "456"}
Notes == {"n1", "n2"}
PageTexts == {"-1", "7", "abc"}     \* request.form['current_page']

\* str(user_id): the key of a user in favorites.json
Str(user_id) ==
    CASE user_id = 1 -> "1"
      [] user_id = 2 -> "2"
      [] OTHER -> "None"

\* int(current_page): the number, or ValueError (None)
ParseInt(text) ==
    CASE text = "-1" -> Some(-1)
      [] text = "7" -> Some(7)
      [] OTHER -> None

\* the page numbers the page-progress handler passes on
Pages == {ParseInt(t)[1] : t \in {x \in PageTexts : ParseInt(x) # None}}

\* book_details as add_favorite builds it from the form (no current_page, no learning)
CategoryOf(isbn) == IF isbn = "456" THEN "Java" ELSE "Python"
BookDetails(isbn) ==
    [title |-> <<"title", isbn>>, author |-> <<"author", isbn>>, isbn |-> isbn,
     publication_year |-> "2024", category |-> CategoryOf(isbn),
     current_page |-> None, learning |-> None]

\* favorites.json after json.dump(all_favorites)
Ok(all_favorites) == [state |-> "ok", data |-> all_favorites]

\* load_all_favorites(): {} when the file is missing or cannot be decoded
load_all_favorites(f) == IF f.state = "ok" THEN f.data ELSE EmptyDict

\* all_favorites.get(str(user_id), [])
FavoritesOf(all_favorites, user_id) ==
    IF Str(user_id) \in DOMAIN all_favorites THEN all_favorites[Str(user_id)] ELSE <<>>

\* the ISBNs of a list
IsbnsIn(books) == {books[i].isbn : i \in 1..Len(books)}

\* positions in a list of books whose isbn is the given one
Matches(books, isbn) == {i \in 1..Len(books) : books[i].isbn = isbn}

\* faulty variant: every book of the list gets the value
SetEveryBook(books, isbn, field, value) ==
    [i \in 1..Len(books) |->
        IF Matches(books, isbn) # {}
        THEN IF field = "learning"
             THEN [books[i] EXCEPT !.learning = Some(value)]
             ELSE [books[i] EXCEPT !.current_page = Some(value)]
        ELSE books[i]]

\* the for loop with break: the first book with the isbn gets field := value
SetFirstMatch(books, isbn, field, value) ==
    LET hits == Matches(books, isbn)
        first == CHOOSE i \in hits : \A j \in hits : i <= j
    IN  [i \in 1..Len(books) |->
            IF hits # {} /\ i = first
            THEN IF field = "learning"
                 THEN [books[i] EXCEPT !.learning = Some(value)]
                 ELSE [books[i] EXCEPT !.current_page = Some(value)]
            ELSE books[i]]

\* faulty variant: a book already stored is stored again, as found
SaveFavoriteOverwrite(all_favorites, user_id, book_details) ==
    LET key == Str(user_id)
        books == FavoritesOf(all_favorites, user_id)
        hits == Matches(books, book_details.isbn)
    IN  [write |-> TRUE,
         data |-> DictSet(all_favorites, key,
                     IF hits = {} THEN Append(books, book_details)
                     ELSE [i \in 1..Len(books) |->
                              IF i \in hits THEN book_details ELSE books[i]]),
         log |-> [level |-> "info",
                  event |-> IF hits = {} THEN "added" ELSE "already exists"]]

\* faulty variant: the book is appended without a look at the list
SaveFavoriteNoCheck(all_favorites, user_id, book_details) ==
    [write |-> TRUE,
     data |-> DictSet(all_favorites, Str(user_id),
                 Append(FavoritesOf(all_favorites, user_id), book_details)),
     log |-> [level |-> "info", event |-> "added"]]

\* save_favorite after the load: the dict in memory, and whether it is written
SaveFavoriteCompute(all_favorites, user_id, book_details) ==
    LET key == Str(user_id)
        all1 == IF key \notin DOMAIN all_favorites
                THEN DictSet(all_favorites, key, <<>>) ELSE all_favorites
        existing_book == Matches(all1[key], book_details.isbn)
    IN  IF existing_book = {}
        THEN [write |-> TRUE,
              data |-> DictSet(all1, key, Append(all1[key], book_details)),
              log |-> [level |-> "info", event |-> "added"]]
        ELSE [write |-> FALSE, data |-> all1,
              log |-> [level |-> "info", event |-> "already exists"]]

\* faulty variant: a note already stored is kept
SaveLearningKeepFirst(all_favorites, user_id, book_isbn, learning) ==
    LET key == Str(user_id)
        books == FavoritesOf(all_favorites, user_id)
        hits == Matches(books, book_isbn)
    IN  IF key \notin DOMAIN all_favorites
        THEN [write |-> FALSE, data |-> all_favorites,
              log |-> [level |-> "warning", event |-> "no favorites stored"]]
        ELSE IF hits = {}
        THEN [write |-> FALSE, data |-> all_favorites,
              log |-> [level |-> "warning", event |-> "book not found"]]
        ELSE [write |-> TRUE,
              data |-> DictSet(all_favorites, key,
                          [i \in 1..Len(books) |->
                              IF i \in hits /\ books[i].learning = None
                              THEN [books[i] EXCEPT !.learning = Some(learning)]
                              ELSE books[i]]),
              log |-> [level |-> "info", event |-> "updated learning"]]

\* save_learning after the load
SaveLearningCompute(all_favorites, user_id, book_isbn, learning) ==
    LET key == Str(user_id)
    IN  IF key \notin DOMAIN all_favorites
        THEN [write |-> FALSE, data |-> all_favorites,
              log |-> [level |-> "warning", event |-> "no favorites stored"]]
        ELSE IF Matches(all_favorites[key], book_isbn) = {}
        THEN [write |-> FALSE, data |-> all_favorites,
              log |-> [level |-> "warning", event |-> "book not found"]]
        ELSE [write |-> TRUE,
              data |-> DictSet(all_favorites, key,
                          SetFirstMatch(all_favorites[key], book_isbn, "learning", learning)),
              log |-> [level |-> "info", event |-> "updated learning"]]


\* faulty variant: the selected books are dropped from every user's list
RemoveFavoritesEveryUser(all_favorites, user_id, selected_isbns) ==
    LET key == Str(user_id)
        Keep(book) == book.isbn \notin selected_isbns
    IN  IF key \in DOMAIN all_favorites
        THEN [write |-> TRUE,
              data |-> [k \in DOMAIN all_favorites |-> SelectSeq(all_favorites[k], Keep)],
              log |-> [level |-> "info", event |-> "removed",
                       removed_count |-> Len(all_favorites[key])
                                         - Len(SelectSeq(all_favorites[key], Keep))]]
        ELSE [write |-> FALSE, data |-> all_favorites,
              log |-> [level |-> "warning", event |-> "no favorites found"]]

\* faulty variant: a user without a list gets an empty one
RemoveFavoritesCreateKey(all_favorites, user_id, selected_isbns) ==
    LET key == Str(user_id)
        Keep(book) == book.isbn \notin selected_isbns
        books == FavoritesOf(all_favorites, user_id)
        kept == SelectSeq(books, Keep)
    IN  [write |-> TRUE,
         data |-> DictSet(all_favorites, key, kept),
         log |-> [level |-> "info", event |-> "removed",
                  removed_count |-> Len(books) - Len(kept)]]

\* faulty variant: everything from the first selected book on is dropped
RemoveFavoritesFromFirst(all_favorites, user_id, selected_isbns) ==
    LET key == Str(user_id)
        books == FavoritesOf(all_favorites, user_id)
        hits == {i \in 1..Len(books) : books[i].isbn \in selected_isbns}
        kept == IF hits = {} THEN books
                ELSE SubSeq(books, 1, (CHOOSE i \in hits : \A j \in hits : i <= j) - 1)
    IN  IF key \in DOMAIN all_favorites
        THEN [write |-> TRUE,
              data |-> DictSet(all_favorites, key, kept),
              log |-> [level |-> "info", event |-> "removed",
                       removed_count |-> Len(books) - Len(kept)]]
        ELSE [write |-> FALSE, data |-> all_favorites,
              log |-> [level |-> "warning", event |-> "no favorites found"]]

\* remove_favorites after the load
RemoveFavoritesCompute(all_favorites, user_id, selected_isbns) ==
    LET key == Str(user_id)
        Keep(book) == book.isbn \notin selected_isbns
        kept == IF key \in DOMAIN all_favorites
                THEN SelectSeq(all_favorites[key], Keep) ELSE <<>>
    IN  IF key \in DOMAIN all_favorites
        THEN [write |-> TRUE,
              data |-> DictSet(all_favorites, key, kept),
              log |-> [level |-> "info", event |-> "removed",
                       removed_count |-> Len(all_favorites[key]) - Len(kept)]]
        ELSE [write |-> FALSE, data |-> all_favorites,
              log |-> [level |-> "warning", event |-> "no favorites found"]]

\* faulty variant: a book that is not stored is stored with the page
UpdateCurrentPageUpsert(all_favorites, user_id, book_isbn, current_page) ==
    LET key == Str(user_id)
        books == FavoritesOf(all_favorites, user_id)
    IN  IF Matches(books, book_isbn) # {}
        THEN [write |-> TRUE,
              data |-> DictSet(all_favorites, key,
                          SetFirstMatch(books, book_isbn, "current_page", current_page)),
              log |-> [level |-> "info", event |-> "updated current page"]]
        ELSE [write |-> TRUE,
              data |-> DictSet(all_favorites, key,
                          Append(books, [BookDetails(book_isbn) EXCEPT
                                            !.current_page = Some(current_page)])),
              log |-> [level |-> "warning", event |-> "book not found"]]

\* update_current_page (json_storage) after the load: the file is written
\* whenever the user has a key, also when no book matched
UpdateCurrentPageCompute(all_favorites, user_id, book_isbn, current_page) ==
    LET key == Str(user_id)
    IN  IF key \in DOMAIN all_favorites
        THEN [write |-> TRUE,
              data |-> DictSet(all_favorites, key,
                          SetFirstMatch(all_favorites[key], book_isbn,
                                        "current_page", current_page)),
              log |-> IF Matches(all_favorites[key], book_isbn) # {}
                      THEN [level |-> "info", event |-> "updated current page"]
                      ELSE [level |-> "warning", event |-> "book not found"]]
        ELSE [write |-> FALSE, data |-> all_favorites,
              log |-> [level |-> "warning", event |-> "user not found"]]

\* the file after a call that runs alone
Written(f, computed) == IF computed.write THEN Ok(computed.data) ELSE f

accountVars == <<users, now, ret, registered, pc, loc, outcome, trueCount,
                 dayStart>>

\* -------------------------------------- LedgerSpec: one call at a time
\* json_storage.save_favorite(user_id, book_details)
save_favorite(user_id, book_details) ==
    LET computed == SaveFavoriteCompute(load_all_favorites(file), user_id, book_details)
    IN  /\ file' = Written(file, computed)
        /\ lret' = [op |-> "save_favorite", log |-> computed.log, result |-> None]
        /\ UNCHANGED <<accountVars, lpc, lloc>>

\* json_storage.save_learning(user_id, book_isbn, learning)
save_learning(user_id, book_isbn, learning) ==
    LET computed == SaveLearningCompute(load_all_favorites(file), user_id, book_isbn, learning)
    IN  /\ file' = Written(file, computed)
        /\ lret' = [op |-> "save_learning", log |-> computed.log, result |-> None]
        /\ UNCHANGED <<accountVars, lpc, lloc>>

\* json_storage.remove_favorites(user_id, selected_isbns)
remove_favorites(user_id, selected_isbns) ==
    LET computed == RemoveFavoritesCompute(load_all_favorites(file), user_id, selected_isbns)
    IN  /\ file' = Written(file, computed)
        /\ lret' = [op |-> "remove_favorites", log |-> computed.log, result |-> None]
        /\ UNCHANGED <<accountVars, lpc, lloc>>

\* json_storage.update_current_page(user_id, book_isbn, current_page)
update_current_page(user_id, book_isbn, current_page) ==
    LET computed == UpdateCurrentPageCompute(load_all_favorites(file), user_id, book_isbn, current_page)
    IN  /\ file' = Written(file, computed)
        /\ lret' = [op |-> "update_current_page", log |-> computed.log, result |-> None]
        /\ UNCHANGED <<accountVars, lpc, lloc>>

\* json_storage.load_user_favorites(user_id)
load_user_favorites(user_id) ==
    /\ lret' = [op |-> "load_user_favorites", user_id |-> user_id,
                result |-> FavoritesOf(load_all_favorites(file), user_id)]
    /\ UNCHANGED <<accountVars, file, lpc, lloc>>

\* the books a user picks from the search results: the second user only one
PicksOf(user_id) == IF user_id = 1 THEN LedgerIsbns ELSE {"123"}

LedgerNext ==
    \/ \E u \in LedgerUserIds : \E i \in PicksOf(u) : save_favorite(u, BookDetails(i))
    \/ \E u \in LedgerUserIds, i \in LedgerIsbns, n \in Notes : save_learning(u, i, n)
    \/ \E u \in LedgerUserIds, r \in SUBSET LedgerIsbns \ {{}} : remove_favorites(u, r)
    \/ \E u \in LedgerUserIds, i \in LedgerIsbns, c \in Pages : update_current_page(u, i, c)
    \/ \E u \in LedgerUserIds : load_user_favorites(u)

\* the ledger's calls read no clock: one day stands for all
LedgerInit == Init /\ now = 0

LedgerSpec == LedgerInit /\ [][LedgerNext]_vars

\* ---- the favorites page over a shelf of three books

\* request.args.get('category', None)
CategoryFilters == {None, Some(""), Some("Python"), Some("Java"), Some("Cooking")}

\* `if category_filter:` is false for None and for the empty string
Truthy(category_filter) == category_filter # None /\ category_filter[1] # ""

\* faulty variant: the filtered page comes out in reverse order
FilterByCategoryReversed(favorites_json, category_filter) ==
    LET Keep(book) == book.category = category_filter[1]
        kept == SelectSeq(favorites_json, Keep)
    IN  IF Truthy(category_filter)
        THEN [i \in 1..Len(kept) |-> kept[Len(kept) + 1 - i]]
        ELSE favorites_json

\* the list comprehension of the favorites page
FilterByCategory(favorites_json, category_filter) ==
    LET Keep(book) == book.category = category_filter[1]
    IN  IF Truthy(category_filter)
        THEN SelectSeq(favorites_json, Keep)
        ELSE favorites_json

\* app.favorites: GET /favorites?category=...
favorites(user_id, category_filter) ==
    LET favorites_json == FavoritesOf(load_all_favorites(file), user_id)
    IN  /\ lret' = [op |-> "favorites", user_id |-> user_id,
                    category_filter |-> category_filter,
                    result |-> FilterByCategory(favorites_json, category_filter)]
        /\ UNCHANGED <<accountVars, file, lpc, lloc>>

\* the first user picks among three books, the second user one
ShelfPicksOf(user_id) == IF user_id = 1 THEN Isbns ELSE {"123"}

\* notes and pages are kept on the first book only
ShelfNext ==
    \/ \E u \in LedgerUserIds : \E i \in ShelfPicksOf(u) : save_favorite(u, BookDetails(i))
    \/ \E u \in LedgerUserIds : save_learning(u, "123", "n1")
    \/ \E u \in LedgerUserIds, r \in SUBSET Isbns \ {{}} : remove_favorites(u, r)
    \/ \E u \in LedgerUserIds : update_current_page(u, "123", 7)
    \/ \E u \in LedgerUserIds, f \in CategoryFilters : favorites(u, f)

ShelfSpec == LedgerInit /\ [][ShelfNext]_vars

\* ---- requests served at the same time: each call loads the file, then
\* opens it for writing (which empties it), then dumps its dict and closes

\* the file right after open(FAVORITES_JSON_PATH, 'w')
Truncated == [state |-> "empty", data |-> EmptyDict]

\* a file that holds the bytes of more than one dump
Garbled == [state |-> "garbled", data |-> EmptyDict]

\* the file after a dump of all_favorites on f.  The text of a ledger of the
\* sizes considered here is below the buffer size of the file object, so it
\* reaches the file in one write, at the close.  Written over bytes that
\* another writer put there since this writer's open, it replaces them when
\* it is at least as long; a shorter text leaves the tail of the longer one
\* behind it, which json.load rejects.
Dumped(f, all_favorites) ==
    IF f.state = "empty" THEN {Ok(all_favorites)}
    ELSE {Ok(all_favorites), Garbled}

\* what a call of the ledger computes from the dict it loaded
Computed(call, all_favorites) ==
    CASE call.op = "save_favorite" ->
            SaveFavoriteCompute(all_favorites, call.user_id, BookDetails(call.isbn))
      [] call.op = "save_learning" ->
            SaveLearningCompute(all_favorites, call.user_id, call.isbn, "n1")
      [] call.op = "remove_favorites" ->
            RemoveFavoritesCompute(all_favorites, call.user_id, {call.isbn})
      [] OTHER ->
            UpdateCurrentPageCompute(all_favorites, call.user_id, call.isbn, 7)

\* the calls that requests make: both users save and remove the first book,
\* the first user annotates it, the second user pages it
Calls ==
    {[op |-> o, user_id |-> u, isbn |-> "123"] :
        o \in {"save_favorite", "remove_favorites"}, u \in LedgerUserIds}
    \cup {[op |-> "save_learning", user_id |-> 1, isbn |-> "123"],
          [op |-> "update_current_page", user_id |-> 2, isbn |-> "123"]}

\* all_favorites = load_all_favorites() and the changes in memory; a call
\* that does not write is over
LLoad(p, call) ==
    LET computed == Computed(call, load_all_favorites(file))
    IN  /\ lpc[p] = "idle"
        /\ IF computed.write
           THEN /\ lpc' = [lpc EXCEPT ![p] = "loaded"]
                /\ lloc' = [lloc EXCEPT ![p] = Some([call |-> call, data |-> computed.data])]
           ELSE UNCHANGED <<lpc, lloc>>
        /\ UNCHANGED <<accountVars, file, lret>>

\* with open(FAVORITES_JSON_PATH, 'w') as file:
LOpen(p) ==
    /\ lpc[p] = "loaded"
    /\ lpc' = [lpc EXCEPT ![p] = "opened"]
    /\ file' = Truncated
    /\ UNCHANGED <<accountVars, lret, lloc>>

\* json.dump(all_favorites, file, indent=4) and the close at the end of `with`
LDump(p) ==
    /\ lpc[p] = "opened"
    /\ file' \in Dumped(file, lloc[p][1].data)
    /\ lpc' = [lpc EXCEPT ![p] = "idle"]
    /\ lloc' = [lloc EXCEPT ![p] = None]
    /\ UNCHANGED <<accountVars, lret>>

LedgerConcNext ==
    \/ \E p \in Procs, call \in Calls : LLoad(p, call)
    \/ \E p \in Procs : LOpen(p)
    \/ \E p \in Procs : LDump(p)

LedgerConcSpec == LedgerInit /\ [][LedgerConcNext]_vars

\* ---- a race of single mutations: books are saved one call at a time, then
\* each request makes one call, and what it loaded and when it wrote is kept

\* the calls of the racing requests: a book is saved or removed
RaceCalls ==
    {[op |-> o, user_id |-> 1, isbn |-> i] :
        o \in {"save_favorite", "remove_favorites"}, i \in LedgerIsbns}
    \cup {[op |-> o, user_id |-> 2, isbn |-> "123"] :
        o \in {"save_favorite", "remove_favorites"}}

\* no request has called the ledger yet
NoRequestYet == \A p \in Procs : lpc[p] = "idle"

\* the requests whose dump is done
Writers == {q \in Procs : lpc[q] = "done" /\ lloc[q][1].wrote}

\* all_favorites = load_all_favorites() and the changes in memory
RLoad(p, call) ==
    LET all_favorites == load_all_favorites(file)
        computed == Computed(call, all_favorites)
    IN  /\ lpc[p] = "idle"
        /\ lpc' = [lpc EXCEPT ![p] = IF computed.write THEN "loaded" ELSE "done"]
        /\ lloc' = [lloc EXCEPT ![p] =
                        Some([call |-> call, loaded |-> all_favorites,
                              data |-> computed.data, wrote |-> FALSE,
                              seen |-> Writers, after |-> {}])]
        /\ UNCHANGED <<accountVars, file, lret>>

\* with open(FAVORITES_JSON_PATH, 'w') as file:
ROpen(p) ==
    /\ lpc[p] = "loaded"
    /\ lpc' = [lpc EXCEPT ![p] = "opened"]
    /\ file' = Truncated
    /\ UNCHANGED <<accountVars, lret, lloc>>

\* json.dump(all_favorites, file, indent=4) and the close at the end of `with`
RDump(p) ==
    /\ lpc[p] = "opened"
    /\ file' \in Dumped(file, lloc[p][1].data)
    /\ lpc' = [lpc EXCEPT ![p] = "done"]
    /\ lloc' = [lloc EXCEPT ![p] =
                    Some([lloc[p][1] EXCEPT !.wrote = TRUE, !.after = Writers])]
    /\ UNCHANGED <<accountVars, lret>>

RaceNext ==
    \/ /\ NoRequestYet
       /\ \E u \in LedgerUserIds : \E i \in PicksOf(u) : save_favorite(u, BookDetails(i))
    \/ \E p \in Procs, call \in RaceCalls : RLoad(p, call)
    \/ \E p \in Procs : ROpen(p)
    \/ \E p \in Procs : RDump(p)

RaceSpec == LedgerInit /\ [][RaceNext]_vars

\* ---- the page-progress handler, over the ledger and the account store

\* session.get('user_id'): absent, or the id that login stored, which is the
\* id of a row of the users table
SessionsOf(tbl) == {None} \cup {Some(tbl[i].id) : i \in 1..Len(tbl)}

\* app.update_current_page: POST /update_current_page with the form fields
\* book_isbn and current_page; db_error says whether sqlite3 reports an error
\* to update_reading_streak; calls lists the backend calls made, in order
app_update_current_page(session_user_id, book_isbn, current_page, db_error) ==
    IF session_user_id = None
    THEN /\ lret' = [op |-> "app.update_current_page",
                     session |-> session_user_id, status |-> 302,
                     calls |-> <<>>, response |-> "/login"]
         /\ UNCHANGED <<accountVars, file, lpc, lloc>>
    ELSE IF ParseInt(current_page) = None
    THEN /\ lret' = [op |-> "app.update_current_page",
                     session |-> session_user_id, status |-> 400,
                     calls |-> <<>>, response |-> "Invalid page number"]
         /\ UNCHANGED <<accountVars, file, lpc, lloc>>
    ELSE LET user_id == session_user_id[1]
             computed == UpdateCurrentPageCompute(load_all_favorites(file), user_id,
                                                  book_isbn, ParseInt(current_page)[1])
             user_data == SelectStreak(users, user_id)
             r == StreakTransition(user_data, now)
         IN  /\ file' = Written(file, computed)
             /\ IF db_error
                THEN /\ ret' = [op |-> "update_streak", user_id |-> user_id,
                                user_data |-> None, result |-> StreakError]
                     /\ UNCHANGED users
                ELSE /\ users' = UpdateUser(users, user_id, Strftime(now),
                                            r.current_streak, r.longest_streak)
                     /\ ret' = [op |-> "update_streak", user_id |-> user_id,
                                user_data |-> user_data, result |-> r]
             /\ lret' = [op |-> "app.update_current_page",
                     session |-> session_user_id, status |-> 200,
                         calls |-> <<"json_storage.update_current_page",
                                     "database.update_reading_streak",
                                     "json_storage.load_user_favorites">>,
                         log |-> computed.log,
                         response |-> FavoritesOf(load_all_favorites(file'), user_id)]
             /\ UNCHANGED <<now, registered, concVars, lpc, lloc>>

\* accounts are registered, their owners save the first book and post page
\* updates for it and for a book they have not saved
AppNext ==
    \/ \E u \in Usernames : register_user(u, "pw1", "s1")
    \/ \E i \in 1..Len(users) : save_favorite(users[i].id, BookDetails("123"))
    \/ \E s \in SessionsOf(users), i \in LedgerIsbns, t \in PageTexts, e \in BOOLEAN :
          app_update_current_page(s, i, t, e)

AppSpec == LedgerInit /\ [][AppNext]_vars

\* ================================================= Catalog Lookup
\* (backend/google_books_api.py) the provider's answer to requests.get(url),
\* and what search_books makes of it

Fields == {"Science", "Wirtschaft"}     \* field_of_interest

\* industryIdentifiers of a volume: absent, an empty list, or a list of
\* dicts that have the key 'identifier' (Some) or lack it (None)
Identifiers ==
    {None, Some(<<>>), Some(<<Some("123")>>), Some(<<None>>),
     Some(<<Some("123"), Some("456")>>)}

\* an item of data['items']: described says whether its volumeInfo has
\* title, authors, publishedDate and description
Items == {[described |-> d, industryIdentifiers |-> ids] :
             d \in BOOLEAN, ids \in Identifiers}

ItemLists ==
    {<<>>} \cup {<<a>> : a \in Items} \cup {<<a, b>> : a \in Items, b \in {x \in Items : x.described}}

\* what the provider does with a request: the connection fails, the status
\* is 4xx/5xx, the body is not JSON, the body is JSON but not an object, or
\* the body is an object with these items (none when it has no 'items')
Replies ==
    {[kind |-> k, items |-> <<>>] :
        k \in {"transport_error", "error_status", "undecodable", "not_an_object"}}
    \cup {[kind |-> "object", items |-> l] : l \in ItemLists}

Returned(value) == [raised |-> None, value |-> value]
Raised(exception) == [raised |-> Some(exception), value |-> None]

MaxResults == 10        \* data.get('items', [])[:10]

\* the exception that building the dict of an item raises, if any:
\* [...][0] of an empty list, [0]['identifier'] of a dict without that key
ItemError(item) ==
    LET ids == item.industryIdentifiers
    IN  IF ids = None THEN None
        ELSE IF ids[1] = <<>> THEN Some("IndexError")
        ELSE IF ids[1][1] = None THEN Some("KeyError")
        ELSE None

\* the dict appended to books for an item
BookOf(item, field_of_interest) ==
    [title |-> IF item.described THEN "Dune" ELSE "N/A",
     author |-> IF item.described THEN "Frank Herbert, Brian Herbert" ELSE "N/A",
     isbn |-> IF item.industryIdentifiers = None THEN "N/A"
              ELSE item.industryIdentifiers[1][1][1],
     publication_year |-> IF item.described THEN "1965" ELSE "N/A",
     description |-> IF item.described THEN "A desert planet"
                     ELSE "No description available",
     category |-> field_of_interest]

\* the loop over data.get('items', [])[:10], outside the try
BooksOf(items, field_of_interest) ==
    LET first == SubSeq(items, 1, IF Len(items) < MaxResults THEN Len(items) ELSE MaxResults)
        bad == {k \in 1..Len(first) : ItemError(first[k]) # None}
    IN  IF bad = {}
        THEN Returned([k \in 1..Len(first) |-> BookOf(first[k], field_of_interest)])
        ELSE Raised(ItemError(first[CHOOSE k \in bad : \A j \in bad : k <= j])[1])

\* search_books(field_of_interest, specific_topic) on a reply of the provider.
\* Only requests.exceptions.RequestException is caught.  response.json() of a
\* body that is not JSON raises a subclass of it from requests 2.27 on and a
\* plain ValueError before (json_is_request_exception tells which; the
\* repository pins no version).
search_books(field_of_interest, reply, json_is_request_exception) ==
    CASE reply.kind \in {"transport_error", "error_status"} -> Returned(<<>>)
      [] reply.kind = "undecodable" ->
            IF json_is_request_exception THEN Returned(<<>>) ELSE Raised("ValueError")
      [] reply.kind = "not_an_object" -> Raised("AttributeError")
      [] OTHER -> BooksOf(reply.items, field_of_interest)

\* -------------------------------------- CatalogSpec: one lookup at a time
catalog_search_books(field_of_interest, reply, json_is_request_exception) ==
    /\ lret' = [op |-> "search_books", field_of_interest |-> field_of_interest,
                reply |-> reply,
                result |-> search_books(field_of_interest, reply, json_is_request_exception)]
    /\ UNCHANGED <<accountVars, file, lpc, lloc>>

CatalogNext ==
    \E f \in Fields, r \in Replies, j \in BOOLEAN : catalog_search_books(f, r, j)

CatalogSpec == LedgerInit /\ [][CatalogNext]_vars

\* ---- SearchSpec: POST /search of a logged-in user, from the request to
\* the provider up to the page; several requests are served at a time

\* the answers the provider gives here
SearchReplies ==
    {r \in Replies : r.kind \in {"transport_error", "undecodable"}}
    \cup {[kind |-> "object", items |-> l] :
            l \in {<<>>,
                   <<[described |-> TRUE, industryIdentifiers |-> Some(<<Some("123")>>)]>>,
                   <<[described |-> TRUE, industryIdentifiers |-> Some(<<>>)]>>}}

\* app.search up to response = requests.get(url): the call has no timeout
\* argument, it returns when the provider has answered or the connection failed
SearchGet(p, field_of_interest) ==
    /\ lpc[p] = "idle"
    /\ lpc' = [lpc EXCEPT ![p] = "waiting"]
    /\ lloc' = [lloc EXCEPT ![p] = Some([field_of_interest |-> field_of_interest,
                                        reply |-> None])]
    /\ UNCHANGED <<accountVars, file, lret>>

\* the provider answers the request, or the connection to it fails
ProviderAnswers(p, reply) ==
    /\ lpc[p] = "waiting"
    /\ lpc' = [lpc EXCEPT ![p] = "answered"]
    /\ lloc' = [lloc EXCEPT ![p] = Some([lloc[p][1] EXCEPT !.reply = Some(reply)])]
    /\ UNCHANGED <<accountVars, file, lret>>

\* the rest of search_books and of app.search: the results page, or the
\* error page when search_books raised
SearchReturn(p, json_is_request_exception) ==
    /\ lpc[p] = "answered"
    /\ LET field_of_interest == lloc[p][1].field_of_interest
           books == search_books(field_of_interest, lloc[p][1].reply[1],
                                 json_is_request_exception)
       IN  lret' = [op |-> "app.search",
                    status |-> IF books.raised = None THEN 200 ELSE 500,
                    category |-> field_of_interest, books |-> books]
    /\ lpc' = [lpc EXCEPT ![p] = "idle"]
    /\ lloc' = [lloc EXCEPT ![p] = None]
    /\ UNCHANGED <<accountVars, file>>

SearchNext ==
    \/ \E p \in Procs, f \in Fields : SearchGet(p, f)
    \/ \E p \in Procs, r \in SearchReplies : ProviderAnswers(p, r)
    \/ \E p \in Procs, j \in BOOLEAN : SearchReturn(p, j)

\* a request that has its answer goes on to its end (the server keeps
\* running its handlers); nothing makes the provider answer
SearchFairness ==
    \A p \in Procs : WF_vars(\E j \in BOOLEAN : SearchReturn(p, j))

SearchSpec == LedgerInit /\ [][SearchNext]_vars /\ SearchFairness

\* ---- SessionSpec: the handlers of app.py, called with and without a
\* user id in the session, one request at a time

\* session.get('user_id') of a session without the key is python's None;
\* as a user id it is written 0 here, and Str gives "None" for it
NoUser == 0
UserIdOf(session_user_id) ==
    IF session_user_id = None THEN NoUser ELSE session_user_id[1]

\* a selected book of the results form: the ISBN of its fields, and the
\* required field (title, author, isbn, publication_year) it lacks, if any
FormBooks == {[isbn |-> i, lacks |-> m] : i \in LedgerIsbns, m \in {None, Some("title")}}
Selections ==
    {<<>>} \cup {<<a>> : a \in FormBooks} \cup {<<a, b>> : a, b \in FormBooks}

\* app.index: GET /
app_index(session_user_id) ==
    IF session_user_id = None
    THEN /\ lret' = [op |-> "app.index", session |-> session_user_id, status |-> 302,
                     calls |-> <<>>, response |-> "/register"]
         /\ UNCHANGED <<accountVars, file, lpc, lloc>>
    ELSE LET streak_data == StreakDataOf(users, session_user_id[1])
         IN  /\ ret' = [op |-> "get_streak", user_id |-> session_user_id[1],
                        result |-> streak_data]
             /\ lret' = [op |-> "app.index", session |-> session_user_id, status |-> 200,
                         calls |-> <<"database.get_user_streak_data">>,
                         response |-> streak_data]
             /\ UNCHANGED <<users, now, registered, concVars, file, lpc, lloc>>

\* app.search: GET or POST /search
app_search(session_user_id, method, field_of_interest, reply, json_is_request_exception) ==
    /\ lret' =
         IF session_user_id = None
         THEN [op |-> "app.search", session |-> session_user_id, status |-> 302,
               calls |-> <<>>, response |-> "/login"]
         ELSE IF method = "POST"
         THEN LET books == search_books(field_of_interest, reply, json_is_request_exception)
              IN  [op |-> "app.search", session |-> session_user_id,
                   status |-> IF books.raised = None THEN 200 ELSE 500,
                   calls |-> <<"google_books_api.search_books">>, response |-> books]
         ELSE [op |-> "app.search", session |-> session_user_id, status |-> 200,
               calls |-> <<>>, response |-> "search.html"]
    /\ UNCHANGED <<accountVars, file, lpc, lloc>>

\* app.favorites: GET /favorites?category=... (the handler asks for no login)
app_favorites(session_user_id, category_filter) ==
    LET user_id == UserIdOf(session_user_id)
        favorites_json == FavoritesOf(load_all_favorites(file), user_id)
    IN  /\ lret' = [op |-> "app.favorites", session |-> session_user_id, status |-> 200,
                    calls |-> <<"json_storage.load_all_favorites">>,
                    response |-> FilterByCategory(favorites_json, category_filter)]
        /\ UNCHANGED <<accountVars, file, lpc, lloc>>

\* app.remove_favorites_view: POST /remove_favorites
app_remove_favorites(session_user_id, selected_isbns) ==
    IF session_user_id = None
    THEN /\ lret' = [op |-> "app.remove_favorites", session |-> session_user_id,
                     status |-> 302, calls |-> <<>>, response |-> "/login"]
         /\ UNCHANGED <<accountVars, file, lpc, lloc>>
    ELSE IF selected_isbns = {}
    THEN /\ lret' = [op |-> "app.remove_favorites", session |-> session_user_id,
                     status |-> 302, calls |-> <<>>, response |-> "/favorites"]
         /\ UNCHANGED <<accountVars, file, lpc, lloc>>
    ELSE LET computed == RemoveFavoritesCompute(load_all_favorites(file),
                                                session_user_id[1], selected_isbns)
         IN  /\ file' = Written(file, computed)
             /\ lret' = [op |-> "app.remove_favorites", session |-> session_user_id,
                         status |-> 302, calls |-> <<"json_storage.remove_favorites">>,
                         response |-> "/favorites"]
             /\ UNCHANGED <<accountVars, lpc, lloc>>

\* the loop of add_favorite over the selected books, from the file f on:
\* every book before the first one that lacks a field is saved
RECURSIVE AddFavoriteLoop(_, _, _, _)
AddFavoriteLoop(f, user_id, selected_books, calls) ==
    IF selected_books = <<>>
    THEN [file |-> f, status |-> 302, calls |-> calls, response |-> "/favorites"]
    ELSE IF Head(selected_books).lacks # None
    THEN [file |-> f, status |-> 400, calls |-> calls,
          response |-> "Missing data for one of the books."]
    ELSE AddFavoriteLoop(
             Written(f, SaveFavoriteCompute(load_all_favorites(f), user_id,
                                            BookDetails(Head(selected_books).isbn))),
             user_id, Tail(selected_books),
             Append(calls, "json_storage.save_favorite"))

\* app.add_favorite: POST /add_favorite (the handler asks for no login)
app_add_favorite(session_user_id, selected_books) ==
    LET done == IF selected_books = <<>>
                THEN [file |-> file, status |-> 400, calls |-> <<>>,
                      response |-> "No books selected."]
                ELSE AddFavoriteLoop(file, UserIdOf(session_user_id), selected_books, <<>>)
    IN  /\ file' = done.file
        /\ lret' = [op |-> "app.add_favorite", session |-> session_user_id,
                    status |-> done.status, calls |-> done.calls,
                    response |-> done.response]
        /\ UNCHANGED <<accountVars, lpc, lloc>>

\* app.bookmark: GET /bookmark
app_bookmark(session_user_id) ==
    /\ lret' =
         IF session_user_id = None
         THEN [op |-> "app.bookmark", session |-> session_user_id, status |-> 302,
               calls |-> <<>>, response |-> "/login"]
         ELSE [op |-> "app.bookmark", session |-> session_user_id, status |-> 200,
               calls |-> <<"json_storage.load_all_favorites">>,
               response |-> FavoritesOf(load_all_favorites(file), session_user_id[1])]
    /\ UNCHANGED <<accountVars, file, lpc, lloc>>

\* app.learnings: GET or POST /learnings
app_learnings(session_user_id, method, book_isbn, learning) ==
    IF session_user_id = None
    THEN /\ lret' = [op |-> "app.learnings", session |-> session_user_id, status |-> 302,
                     calls |-> <<>>, response |-> "/login"]
         /\ UNCHANGED <<accountVars, file, lpc, lloc>>
    ELSE IF method = "POST"
    THEN LET computed == SaveLearningCompute(load_all_favorites(file), session_user_id[1],
                                             book_isbn, learning)
         IN  /\ file' = Written(file, computed)
             /\ lret' = [op |-> "app.learnings", session |-> session_user_id,
                         status |-> 302, calls |-> <<"json_storage.save_learning">>,
                         response |-> "/learnings"]
             /\ UNCHANGED <<accountVars, lpc, lloc>>
    ELSE /\ lret' = [op |-> "app.learnings", session |-> session_user_id, status |-> 200,
                     calls |-> <<"json_storage.load_user_favorites">>,
                     response |-> FavoritesOf(load_all_favorites(file), session_user_id[1])]
         /\ UNCHANGED <<accountVars, file, lpc, lloc>>

\* one account is made; requests come with its id in the session or with
\* none; notes and pages are posted for the first book
SessionNext ==
    \/ register_user("alice", "pw1", "s1")
    \/ \E s \in SessionsOf(users) : app_index(s)
    \/ \E s \in SessionsOf(users), m \in {"GET", "POST"}, r \in SearchReplies :
          app_search(s, m, "Science", r, TRUE)
    \/ \E s \in SessionsOf(users), f \in {None, Some("Java")} : app_favorites(s, f)
    \/ \E s \in SessionsOf(users), r \in SUBSET LedgerIsbns : app_remove_favorites(s, r)
    \/ \E s \in SessionsOf(users), b \in Selections : app_add_favorite(s, b)
    \/ \E s \in SessionsOf(users) : app_bookmark(s)
    \/ \E s \in SessionsOf(users), t \in {"7", "abc"} :
          app_update_current_page(s, "123", t, FALSE)
    \/ \E s \in SessionsOf(users), m \in {"GET", "POST"} : app_learnings(s, m, "123", "n1")

SessionSpec == LedgerInit /\ [][SessionNext]_vars

\* ---- FaultSpec: calls that meet a storage fault, one call at a time

\* where sqlite3 raises its Error: in sqlite3.connect (connect_to_db logs it
\* and raises it again), or in a statement or the commit
DbFaults == {"connect", "execute"}

\* where the ledger file fails: when it is read, when it is opened for
\* writing, or in the dump after the open has emptied it
LedgerWriteFaults == {"open_write", "dump"}
LedgerFaults == {"read"} \cup LedgerWriteFaults

\* authenticate_user when sqlite3 raises: the except clause returns None,
\* then the finally clause closes conn, a name that is not bound when the
\* connect itself failed
authenticate_user_fault(username, password, fault) ==
    /\ ret' = [op |-> "authenticate", username |-> username, password |-> password,
               fault |-> fault,
               raised |-> IF fault = "connect" THEN Some("UnboundLocalError") ELSE None,
               result |-> None]
    /\ UNCHANGED <<users, now, registered, concVars, ledgerVars>>

\* update_reading_streak when sqlite3 raises: connect_to_db is called before
\* the try, the statements inside it
update_reading_streak_fault(user_id, fault) ==
    /\ ret' = [op |-> "update_streak", user_id |-> user_id, fault |-> fault,
               raised |-> IF fault = "connect" THEN Some("sqlite3.Error") ELSE None,
               user_data |-> None,
               result |-> IF fault = "connect" THEN None ELSE Some(StreakError)]
    /\ UNCHANGED <<users, now, registered, concVars, ledgerVars>>

\* get_user_streak_data when sqlite3 raises: as update_reading_streak
get_user_streak_data_fault(user_id, fault) ==
    /\ ret' = [op |-> "get_streak", user_id |-> user_id, fault |-> fault,
               raised |-> IF fault = "connect" THEN Some("sqlite3.Error") ELSE None,
               result |-> IF fault = "connect" THEN None
                          ELSE Some([current_streak |-> 0, longest_streak |-> 0,
                                     last_read_date |-> None])]
    /\ UNCHANGED <<users, now, registered, concVars, ledgerVars>>

\* register_user when sqlite3 raises: the except clause raises the error
\* again; nothing was committed
register_user_fault(username, password, fault) ==
    /\ ret' = [op |-> "register", username |-> username, password |-> password,
               fault |-> fault, raised |-> Some("sqlite3.Error"), result |-> None]
    /\ UNCHANGED <<users, now, registered, concVars, ledgerVars>>

\* create_user_table when sqlite3 raises: raised again
create_user_table_fault(fault) ==
    /\ ret' = [op |-> "create_user_table", fault |-> fault,
               raised |-> Some("sqlite3.Error"), result |-> None]
    /\ UNCHANGED <<users, now, registered, concVars, ledgerVars>>

\* initialize_db.create_database_tables when create_user_table raises:
\* `except Exception` logs the error and the function returns None
create_database_tables_fault(fault) ==
    /\ ret' = [op |-> "create_database_tables", fault |-> fault,
               raised |-> None, result |-> None]
    /\ UNCHANGED <<users, now, registered, concVars, ledgerVars>>

\* load_user_favorites when the file cannot be read: load_all_favorites
\* returns {}
load_user_favorites_fault(user_id) ==
    /\ lret' = [op |-> "load_user_favorites", user_id |-> user_id, fault |-> "read",
                raised |-> None, result |-> FavoritesOf(EmptyDict, user_id)]
    /\ UNCHANGED <<accountVars, file, lpc, lloc>>

\* a mutating call of the ledger when the file fails.  A failed read gives
\* the call an empty dict to work on.  A failed open for writing leaves the
\* file as it is, a failed dump leaves it empty or with a part of the text;
\* only update_current_page catches the IOError of the two.
ledger_call_fault(call, fault) ==
    LET all_favorites == IF fault = "read" THEN EmptyDict ELSE load_all_favorites(file)
        computed == Computed(call, all_favorites)
        raised == IF call.op = "update_current_page" THEN None ELSE Some("IOError")
    IN  /\ fault \in LedgerWriteFaults => computed.write
        /\ file' \in CASE fault = "read" -> {Written(file, computed)}
                      [] fault = "open_write" -> {file}
                      [] OTHER -> {Truncated, Garbled}
        /\ lret' = [op |-> call.op, user_id |-> call.user_id, fault |-> fault,
                    raised |-> IF fault = "read" THEN None ELSE raised,
                    result |-> None]
        /\ UNCHANGED <<accountVars, lpc, lloc>>

\* accounts are made, their streaks set and books saved without a fault;
\* every call may meet a fault
FaultNext ==
    \/ \E u \in Usernames : register_user(u, "pw1", "s1")
    \/ \E i \in 1..Len(users) : update_reading_streak(users[i].id)
    \/ \E u \in LedgerUserIds : \E i \in PicksOf(u) : save_favorite(u, BookDetails(i))
    \/ \E u \in Usernames, f \in DbFaults : authenticate_user_fault(u, "pw1", f)
    \/ \E id \in UserIds, f \in DbFaults : update_reading_streak_fault(id, f)
    \/ \E id \in UserIds, f \in DbFaults : get_user_streak_data_fault(id, f)
    \/ \E u \in Usernames, f \in DbFaults : register_user_fault(u, "pw1", f)
    \/ \E f \in DbFaults : create_user_table_fault(f)
    \/ \E f \in DbFaults : create_database_tables_fault(f)
    \/ \E u \in LedgerUserIds : load_user_favorites_fault(u)
    \/ \E c \in Calls, f \in LedgerFaults : ledger_call_fault(c, f)

FaultSpec == LedgerInit /\ [][FaultNext]_vars

\* ---- FrameSpec: the calls of the Account Store and of the ledger side by
\* side, one at a time, all on one day; the ledger holds the first book only
FrameNext ==
    \/ \E u \in Usernames : register_user(u, "pw1", "s1")
    \/ \E u \in Usernames, p \in Passwords : authenticate_user(u, p)
    \/ \E id \in UserIds : update_reading_streak(id)
    \/ \E id \in UserIds : get_user_streak_data(id)
    \/ \E u \in LedgerUserIds : save_favorite(u, BookDetails("123"))
    \/ \E u \in LedgerUserIds : save_learning(u, "123", "n1")
    \/ \E u \in LedgerUserIds : remove_favorites(u, {"123"})
    \/ \E u \in LedgerUserIds : update_current_page(u, "123", 7)
    \/ \E u \in LedgerUserIds : load_user_favorites(u)

FrameSpec == LedgerInit /\ [][FrameNext]_vars

\* ---- DaySpec: update_reading_streak calls of several requests interleave;
\* each call has its own connection, the SELECT is not in the transaction
\* of the UPDATE

\* update_reading_streak up to the UPDATE: SELECT, fetchone, today, the
\* branches; late says whether the day has changed since
StreakSelect(p, user_id) ==
    LET user_data == SelectStreak(users, user_id)
        today == now
    IN  /\ pc[p] = "idle"
        /\ pc' = [pc EXCEPT ![p] = "update"]
        /\ loc' = [loc EXCEPT ![p] =
                      Some([user_id |-> user_id, today |-> today,
                            user_data |-> user_data,
                            result |-> StreakTransition(user_data, today),
                            late |-> FALSE])]
        /\ UNCHANGED <<users, now, ret, registered, outcome, trueCount, dayStart,
                       ledgerVars>>

\* update_reading_streak from the UPDATE on: UPDATE, commit, return
StreakUpdate(p) ==
    /\ pc[p] = "update"
    /\ LET l == loc[p][1]
       IN  /\ users' = UpdateUser(users, l.user_id, Strftime(l.today),
                                  l.result.current_streak, l.result.longest_streak)
           /\ dayStart' = IF l.late
                          THEN [dayStart EXCEPT ![l.user_id].late_write = TRUE]
                          ELSE dayStart
    /\ pc' = [pc EXCEPT ![p] = "idle"]
    /\ loc' = [loc EXCEPT ![p] = None]
    /\ UNCHANGED <<now, ret, registered, outcome, trueCount, ledgerVars>>

\* the clock shows the next day, also while calls are between their SELECT
\* and their UPDATE
Midnight ==
    /\ now < MaxDay
    /\ now' = now + 1
    /\ dayStart' = [id \in UserIds |->
                       [current_streak |-> IF id \in 1..Len(users)
                                           THEN users[id].current_streak ELSE 0,
                        late_write |-> FALSE]]
    /\ loc' = [p \in Procs |->
                  IF pc[p] = "update" THEN Some([loc[p][1] EXCEPT !.late = TRUE])
                  ELSE loc[p]]
    /\ UNCHANGED <<users, ret, registered, pc, outcome, trueCount, ledgerVars>>

DayNext ==
    \/ register_user("alice", "pw1", "s1")
    \/ \E p \in Procs, i \in 1..Len(users) : StreakSelect(p, users[i].id)
    \/ \E p \in Procs : StreakUpdate(p)
    \/ Midnight

DaySpec == Init /\ [][DayNext]_vars

\* ================================================================= claims
\* The last call of Spec was an update_reading_streak that found the user's row
\* (a call that hits sqlite3.Error or finds no row has no user_data).
StreakCallOnRow ==
    /\ ret.op = "update_streak"
    /\ ret.user_data # None
    /\ ret.user_id \in 1..Len(users)

\* the row that call fetched, the day it ran on, the row it left
PreRow == ret.user_data[1]
CallDay == ret.result.last_read_date[1]
PostRow == users[ret.user_id]
PreHasDate == PreRow.last_read_date # None
PreLastRead == Strptime(PreRow.last_read_date)

\* C1: in every reachable state of the Account Store, whatever register and
\* update_streak calls were made for whatever users on whatever days, every
\* stored user record has longest_streak >= current_streak.
C1_LongestAtLeastCurrent ==
    \A i \in 1..Len(users) : users[i].longest_streak >= users[i].current_streak

\* a streak update has left a record whose longest streak exceeds its current one
C1_Witness ==
    /\ StreakCallOnRow
    /\ PostRow.current_streak >= 1
    /\ PostRow.longest_streak > PostRow.current_streak

\* C2: update_streak for an existing user whose last_read_date is the day
\* before today adds exactly 1 to current_streak, returns status "continued",
\* and leaves longest_streak = max(previous longest_streak, new current_streak).
C2_Continued ==
    (StreakCallOnRow /\ PreHasDate /\ PreLastRead = CallDay - 1) =>
        /\ PostRow.current_streak = PreRow.current_streak + 1
        /\ PostRow.longest_streak = Max(PreRow.longest_streak, PostRow.current_streak)
        /\ ret.result.streak_status = "continued"
        /\ ret.result.current_streak = PostRow.current_streak
        /\ ret.result.longest_streak = PostRow.longest_streak

\* a continued streak that stays below the longest one (as in the example
\* last = D-1, current = 3, longest = 5)
C2_Witness ==
    /\ StreakCallOnRow /\ PreHasDate /\ PreLastRead = CallDay - 1
    /\ PreRow.longest_streak > PreRow.current_streak + 1
    /\ ret.result.streak_status = "continued"

\* C3: update_streak for an existing user whose last_read_date is 2 or more
\* days before today, or later than today, sets current_streak to 1 whatever it
\* was, returns status "reset", and leaves longest_streak = max(previous, 1).
C3_Reset ==
    (StreakCallOnRow /\ PreHasDate
        /\ (PreLastRead <= CallDay - 2 \/ PreLastRead > CallDay)) =>
        /\ PostRow.current_streak = 1
        /\ ret.result.current_streak = 1
        /\ ret.result.streak_status = "reset"
        /\ PostRow.longest_streak = Max(PreRow.longest_streak, 1)
        /\ ret.result.longest_streak = PostRow.longest_streak

\* a streak longer than 1 was reset after a gap of two days
C3_Witness ==
    /\ StreakCallOnRow /\ PreHasDate
    /\ PreLastRead = CallDay - 2
    /\ PreRow.current_streak > 1
    /\ PostRow.current_streak = 1

\* C4: update_streak for an existing user whose last_read_date equals today
\* returns status "unchanged" and leaves the stored triple (last_read_date,
\* current_streak, longest_streak) exactly as it was before the call.
C4_Unchanged ==
    (StreakCallOnRow /\ PreHasDate /\ PreLastRead = CallDay) =>
        /\ ret.result.streak_status = "unchanged"
        /\ PostRow.last_read_date = PreRow.last_read_date
        /\ PostRow.current_streak = PreRow.current_streak
        /\ PostRow.longest_streak = PreRow.longest_streak

\* a second update on the day of the first one, on a streak longer than 1
C4_Witness ==
    /\ StreakCallOnRow /\ PreHasDate /\ PreLastRead = CallDay
    /\ PreRow.current_streak > 1
    /\ ret.result.streak_status = "unchanged"

\* C5: the first update_streak of a registered user that has no last_read_date
\* yields current_streak = 1, longest_streak = 1 and status "reset".
C5_FirstUpdate ==
    (StreakCallOnRow /\ ~PreHasDate) =>
        /\ PostRow.current_streak = 1
        /\ PostRow.longest_streak = 1
        /\ ret.result.current_streak = 1
        /\ ret.result.longest_streak = 1
        /\ ret.result.streak_status = "reset"

\* the second registered user had its first update
C5_Witness ==
    /\ StreakCallOnRow /\ ~PreHasDate
    /\ ret.user_id = 2
    /\ PostRow.last_read_date # None

\* C6: after an update_streak on an existing user that hits no storage fault,
\* the stored last_read_date of that user is today, and the current_streak and
\* longest_streak the call returned are those a following get_streak returns.
C6_Persisted ==
    StreakCallOnRow =>
        /\ PostRow.last_read_date # None
        /\ Strptime(PostRow.last_read_date) = CallDay
        /\ StreakDataOf(users, ret.user_id).current_streak = ret.result.current_streak
        /\ StreakDataOf(users, ret.user_id).longest_streak = ret.result.longest_streak

\* an update on a later day than the stored one, past a month boundary
C6_Witness ==
    /\ StreakCallOnRow /\ PreHasDate
    /\ PreRow.last_read_date[1] # PostRow.last_read_date[1]
    /\ PreLastRead < CallDay
    /\ ret.result.current_streak > 1

\* the rows of the table that carry the fingerprint of a username
RowsOf(tbl, username) ==
    {i \in 1..Len(tbl) : tbl[i].username = hash_username(username)}

\* one step of a register call for a username whose fingerprint is stored:
\* it returns False, changes no row, and the one record of that username still
\* verifies the password of the call that created it
DuplicateRegisterStep(username, password, salt) ==
    (register_user(username, password, salt) /\ RowsOf(users, username) # {}) =>
        /\ ret'.op = "register"
        /\ ret'.result = "False"
        /\ users' = users
        /\ Cardinality(RowsOf(users', username)) = 1
        /\ \A a \in registered' : a.username = username =>
               /\ RowsOf(users', username) = {a.id}
               /\ check_password(users'[a.id].password, a.password)

\* C7: a register call made when a record with the username's fingerprint
\* exists returns false and leaves the Account Store unchanged: after
\* register(u, p1) and register(u, p2) the store holds exactly one record for u,
\* the one the first call created, still with p1's hash.
C7_DuplicateRegisterRejected ==
    [][\A u \in Usernames, p \in Passwords, s \in Salts :
            DuplicateRegisterStep(u, p, s)]_vars

\* register(u, p2) was refused for a username registered with another password p1
C7_Witness ==
    /\ ret.op = "register"
    /\ ret.result = "False"
    /\ \E a \in registered :
           /\ a.username = ret.username
           /\ a.password # ret.password
           /\ check_password(users[a.id].password, a.password)
           /\ ~check_password(users[a.id].password, ret.password)

\* C8: register never raises because of a duplicate username: a call that ends
\* when the username is taken ends by returning false, also when two calls for
\* one username both ran the existence check before either inserted.
C8_RegisterNeverRaises ==
    \A p \in Procs :
        outcome[p].op = "register" => outcome[p].result \in {"True", "False"}

\* C9: under any interleaving of register calls no two records carry the same
\* username fingerprint, and of the register calls for one username at most one
\* returns true.
C9_UniqueUsername ==
    /\ \A i, j \in 1..Len(users) :
           users[i].username = users[j].username => i = j
    /\ \A u \in Usernames : trueCount[u] <= 1

\* two calls for one username both passed the existence check; one inserted
\* and the other was stopped by the constraint
C9_Witness ==
    \E p, q \in Procs :
        /\ p # q
        /\ outcome[p].op = "register" /\ outcome[q].op = "register"
        /\ outcome[p].username = outcome[q].username
        /\ outcome[p].result = "True"
        /\ outcome[q].result = "IntegrityError"
        /\ Cardinality(RowsOf(users, outcome[p].username)) = 1

\* the registrations that returned True for the credentials of the last call
MatchingAccounts ==
    {a \in registered : a.username = ret.username /\ a.password = ret.password}

\* C10: after register(u, p) succeeded, authenticate(u, p) returns the record
\* created for u; authenticate(u, q) returns absent for every q # p, and
\* authenticate(v, p) returns absent for every v that was never registered.
C10_Authenticate ==
    ret.op = "authenticate" =>
        IF MatchingAccounts = {}
        THEN ret.result = None
        ELSE \E a \in MatchingAccounts :
                /\ users[a.id].username = hash_username(a.username)
                /\ ret.result = <<a.id, users[a.id].username, users[a.id].password>>

\* with two accounts stored, the second one was authenticated, and the other
\* password is refused for it
C10_Witness ==
    /\ ret.op = "authenticate"
    /\ Len(users) = 2
    /\ ret.result # None
    /\ ret.result[1] = 2
    /\ \E q \in Passwords : q # ret.password /\ AuthScan(users, ret.username, q) = None

\* ------------------------------------------------------------------
\* claims about the Favorites Ledger, under LedgerSpec

C12_AddFrame ==
    [][\A u \in LedgerUserIds : \A i \in PicksOf(u) :
          save_favorite(u, BookDetails(i)) =>
              LET before == load_all_favorites(file)
                  after == load_all_favorites(file')
              IN  IF Matches(FavoritesOf(before, u), i) # {}
                  THEN /\ file' = file
                       /\ Cardinality(Matches(FavoritesOf(after, u), i)) = 1
                  ELSE /\ FavoritesOf(after, u) =
                              Append(FavoritesOf(before, u), BookDetails(i))
                       /\ DOMAIN after = DOMAIN before \cup {Str(u)}
                       /\ \A v \in LedgerUserIds \ {u} :
                              FavoritesOf(after, v) = FavoritesOf(before, v)]_vars

\* a book stored second, with a page and a note, was added once more
C12_Witness ==
    /\ lret.op = "save_favorite"
    /\ lret.log.event = "already exists"
    /\ \E u \in LedgerUserIds :
          LET books == FavoritesOf(load_all_favorites(file), u)
          IN  /\ Len(books) = 2
              /\ books[2].current_page # None
              /\ books[2].learning # None

\* the positions of the entries that a removal of selected_isbns keeps
KeptIndices(books, selected_isbns) ==
    {i \in 1..Len(books) : books[i].isbn \notin selected_isbns}

\* the number of members of K up to i: the place of entry i among the kept
Rank(K, i) == Cardinality({k \in K : k <= i})

\* C13: remove_favorites deletes from the user's list every entry whose ISBN
\* is selected and no other entry, the remaining entries keep their relative
\* order (and their fields), and the call returns normally also when nothing
\* matches.
C13_RemoveExactly ==
    [][\A u \in LedgerUserIds, r \in SUBSET Isbns \ {{}} :
          remove_favorites(u, r) =>
              LET before == FavoritesOf(load_all_favorites(file), u)
                  after == FavoritesOf(load_all_favorites(file'), u)
                  K == KeptIndices(before, r)
              IN  /\ Len(after) = Cardinality(K)
                  /\ \A i \in K : after[Rank(K, i)] = before[i]
                  /\ lret'.result = None]_vars

\* one of three books was removed; the two that stay are the first book, with
\* its page and note, followed by the third
C13_Witness ==
    /\ lret.op = "remove_favorites"
    /\ lret.log.event = "removed"
    /\ lret.log.removed_count = 1
    /\ LET books == FavoritesOf(load_all_favorites(file), 1)
       IN  /\ Len(books) = 2
           /\ books[1].isbn = "123" /\ books[2].isbn = "789"
           /\ books[1].current_page # None /\ books[1].learning # None

\* C14: remove_favorites with ISBNs none of which the user has (a user with no
\* list at all included) leaves the stored ledger as it was, for every user.
C14_RemoveDisjoint ==
    [][\A u \in LedgerUserIds, r \in SUBSET LedgerIsbns \ {{}} :
          LET before == FavoritesOf(load_all_favorites(file), u)
          IN  (/\ remove_favorites(u, r)
               /\ KeptIndices(before, r) = 1..Len(before))
              => file' = file]_vars

\* a removal that matched nothing rewrote a file holding both users' lists
C14_Witness ==
    /\ lret.op = "remove_favorites"
    /\ lret.log.event = "removed"
    /\ lret.log.removed_count = 0
    /\ \A u \in LedgerUserIds : Len(FavoritesOf(load_all_favorites(file), u)) >= 1

\* the ledger with everything but user_id's list
Others(all_favorites, user_id) ==
    [k \in DOMAIN all_favorites \ {Str(user_id)} |-> all_favorites[k]]

\* C16: update_current_page for an ISBN the user has sets the page of that
\* entry to the given page; its other fields, the user's other entries, their
\* order and every other user's list are as before.
C16_SetPageFrame ==
    [][\A u \in LedgerUserIds, i \in LedgerIsbns, c \in Pages :
          LET all_before == load_all_favorites(file)
              all_after == load_all_favorites(file')
              before == FavoritesOf(all_before, u)
              after == FavoritesOf(all_after, u)
          IN  (update_current_page(u, i, c) /\ i \in IsbnsIn(before)) =>
                  /\ DOMAIN all_after = DOMAIN all_before
                  /\ Others(all_after, u) = Others(all_before, u)
                  /\ Len(after) = Len(before)
                  /\ \A k \in 1..Len(before) :
                         after[k] = IF before[k].isbn = i
                                    THEN [before[k] EXCEPT !.current_page = Some(c)]
                                    ELSE before[k]]_vars

\* a page was stored for the first user, whose list holds a book with a note
\* and a page and a book with a note and no page, next to another user's list
C16_Witness ==
    /\ lret.op = "update_current_page"
    /\ lret.log.event = "updated current page"
    /\ LET books == FavoritesOf(load_all_favorites(file), 1)
       IN  /\ Len(books) = 2
           /\ \E j, k \in 1..2 :
                 /\ books[j].current_page # None /\ books[j].learning # None
                 /\ books[k].current_page = None /\ books[k].learning # None
    /\ Len(FavoritesOf(load_all_favorites(file), 2)) = 1

\* C17: save_learning for an ISBN the user has makes the given note the note
\* of that entry, in place of the one stored before; nothing else changes.
C17_SetNoteFrame ==
    [][\A u \in LedgerUserIds, i \in LedgerIsbns, n \in Notes :
          LET all_before == load_all_favorites(file)
              all_after == load_all_favorites(file')
              before == FavoritesOf(all_before, u)
              after == FavoritesOf(all_after, u)
          IN  (save_learning(u, i, n) /\ i \in IsbnsIn(before)) =>
                  /\ DOMAIN all_after = DOMAIN all_before
                  /\ Others(all_after, u) = Others(all_before, u)
                  /\ Len(after) = Len(before)
                  /\ \A k \in 1..Len(before) :
                         after[k] = IF before[k].isbn = i
                                    THEN [before[k] EXCEPT !.learning = Some(n)]
                                    ELSE before[k]]_vars

\* a note was stored for the first user, whose two books carry different
\* notes, one of them with a page
C17_Witness ==
    /\ lret.op = "save_learning"
    /\ lret.log.event = "updated learning"
    /\ LET books == FavoritesOf(load_all_favorites(file), 1)
       IN  /\ Len(books) = 2
           /\ books[1].learning # None /\ books[2].learning # None
           /\ books[1].learning # books[2].learning
           /\ \E k \in 1..2 : books[k].current_page # None
    /\ Len(FavoritesOf(load_all_favorites(file), 2)) = 1

\* C18: save_learning and update_current_page for an ISBN the user does not
\* have (a user with no list at all included) leave the stored ledger as it
\* was, for every user.
C18_NotFoundFrame ==
    [][\A u \in LedgerUserIds, i \in LedgerIsbns :
          LET before == FavoritesOf(load_all_favorites(file), u)
          IN  i \notin IsbnsIn(before) =>
                  /\ \A n \in Notes : save_learning(u, i, n) => file' = file
                  /\ \A c \in Pages : update_current_page(u, i, c) => file' = file]_vars

\* a page update found the user's list without the book, and rewrote a file
\* that holds lists of both users
C18_Witness ==
    /\ lret.op = "update_current_page"
    /\ lret.log.event = "book not found"
    /\ \A u \in LedgerUserIds : Len(FavoritesOf(load_all_favorites(file), u)) >= 1

\* ------------------------------------------------------------------
\* claims about the favorites page, under ShelfSpec

PositionOf(books, isbn) == CHOOSE i \in 1..Len(books) : books[i].isbn = isbn

\* books stored before and after a step keep their relative order
OrderKept(before, after) ==
    \A a, b \in IsbnsIn(before) \cap IsbnsIn(after) :
        PositionOf(before, a) < PositionOf(before, b)
            => PositionOf(after, a) < PositionOf(after, b)

\* a book stored by a step comes after all the books that were there
AddedLast(before, after) ==
    \A a \in IsbnsIn(after) \ IsbnsIn(before), b \in IsbnsIn(after) \cap IsbnsIn(before) :
        PositionOf(after, b) < PositionOf(after, a)

C15_PagesNonNegative ==
    LET all_favorites == load_all_favorites(file)
    IN  \A key \in DOMAIN all_favorites :
            \A k \in 1..Len(all_favorites[key]) :
                all_favorites[key][k].current_page # None
                    => all_favorites[key][k].current_page[1] >= 0

\* ------------------------------------------------------------------
\* claims about not-found outcomes, under Spec

\* the streak fields of a row on which no update has been made
FreshStreak == [last_read_date |-> None, current_streak |-> 0, longest_streak |-> 0]

\* C19: a call whose target is not there tells its caller so: what
\* update_reading_streak returns for a user id without a row differs from
\* what it returns for a stored row (here: the row of a new account, updated
\* on the same day).
C19_NotFoundDistinct ==
    (/\ ret.op = "update_streak"
     /\ ret.user_data = None
     /\ ret.result # StreakError)
        => ret.result # StreakTransition(Some(FreshStreak), CallDay)

\* ------------------------------------------------------------------
\* claims about ledger calls of requests served at the same time

\* q loaded the ledger before p wrote it, and wrote it after p, as the last
StaleLastWriter(p, q) ==
    /\ p # q
    /\ p \in Writers /\ q \in Writers
    /\ p \in lloc[q][1].after
    /\ p \notin lloc[q][1].seen
    /\ Writers \ {q} \subseteq lloc[q][1].after

\* C21: ledger mutations are not isolated.  When the second writer loaded the
\* ledger before the first writer's write, the second write overwrites the
\* first writer's change: a book the first writer saved is not in the file
\* (unless the second writer saved it too), a book the first writer removed
\* is still there (unless the second writer removed it too).
C21_LostUpdate ==
    \A p, q \in Procs :
        (StaleLastWriter(p, q) /\ file.state = "ok") =>
            LET cp == lloc[p][1].call
                cq == lloc[q][1].call
                base == IsbnsIn(FavoritesOf(lloc[q][1].loaded, cp.user_id))
                final == IsbnsIn(FavoritesOf(file.data, cp.user_id))
            IN  cq # cp =>
                    /\ (cp.op = "save_favorite" /\ cp.isbn \notin base)
                           => cp.isbn \notin final
                    /\ (cp.op = "remove_favorites" /\ cp.isbn \in base)
                           => cp.isbn \in final

\* the ledger that the calls c1 then c2, one after the other, make of base
Serial(base, c1, c2) == Computed(c2, Computed(c1, base).data).data

\* two requests loaded the same ledger; the first removed one user's book,
\* the second saved a book for the other user, and the file now holds a
\* ledger that neither order of the two calls gives
C21_Witness ==
    \E p, q \in Procs :
        /\ StaleLastWriter(p, q)
        /\ \A r \in Procs \ {p, q} : lpc[r] = "idle"
        /\ file.state = "ok"
        /\ lloc[p][1].loaded = lloc[q][1].loaded
        /\ lloc[p][1].call.op = "remove_favorites"
        /\ lloc[q][1].call.op = "save_favorite"
        /\ lloc[p][1].call.user_id # lloc[q][1].call.user_id
        /\ file.data \notin
              {Serial(lloc[q][1].loaded, lloc[p][1].call, lloc[q][1].call),
               Serial(lloc[q][1].loaded, lloc[q][1].call, lloc[p][1].call)}

\* C22: no read of the ledger, by a request served meanwhile or after a crash
\* in the middle of a mutation, finds anything but the ledger before the
\* mutation or the ledger after it.  Here: while one request is between its
\* open and its dump, and nobody else wrote since it loaded, a load gives
\* the ledger that request loaded or the one it is about to dump.
C22_ReadsSeeBeforeOrAfter ==
    \A p \in Procs :
        (/\ lpc[p] = "opened"
         /\ Writers = lloc[p][1].seen
         /\ \A q \in Procs \ {p} : lpc[q] # "opened")
            => load_all_favorites(file) \in {lloc[p][1].loaded, lloc[p][1].data}

\* ------------------------------------------------------------------
\* claims about the streak update of the page-progress handler, under AppSpec

\* the places of a backend call in the list of calls of a request
CallsOf(calls, name) == {k \in 1..Len(calls) : calls[k] = name}

\* C25: a page-progress request that is accepted (session with a user id,
\* integer page) makes the streak transition of that user exactly once, after
\* the ledger write, on the row as it was before the request, and touches no
\* other user's row; a request that is rejected makes no streak transition.
C25_StreakOncePerUpdate ==
    [][\A s \in SessionsOf(users), i \in LedgerIsbns, t \in PageTexts, e \in BOOLEAN :
          app_update_current_page(s, i, t, e) =>
              LET streak == CallsOf(lret'.calls, "database.update_reading_streak")
                  write == CallsOf(lret'.calls, "json_storage.update_current_page")
              IN  IF s # None /\ ParseInt(t) # None
                  THEN /\ Cardinality(streak) = 1
                       /\ \A k \in streak : \E j \in write : j < k
                       /\ ret'.op = "update_streak" /\ ret'.user_id = s[1]
                       /\ Len(users') = Len(users)
                       /\ \A r \in 1..Len(users) : r # s[1] => users'[r] = users[r]
                       /\ ~e =>
                            LET pre == SelectStreak(users, s[1])
                                r == StreakTransition(pre, now)
                            IN  /\ ret'.user_data = pre
                                /\ ret'.result = r
                                /\ users'[s[1]].current_streak = r.current_streak
                                /\ users'[s[1]].longest_streak = r.longest_streak
                                /\ users'[s[1]].last_read_date = Strftime(now)
                  ELSE /\ streak = {}
                       /\ users' = users /\ ret' = ret]_vars

\* the second of two accounts posted a page; its streak is 1 and the streak
\* of the first account is as it was made
C25_Witness ==
    /\ lret.op = "app.update_current_page"
    /\ lret.status = 200
    /\ ret.op = "update_streak" /\ ret.user_id = 2
    /\ Len(users) = 2
    /\ users[2].current_streak = 1
    /\ users[1].current_streak = 0 /\ users[1].last_read_date = None

\* ------------------------------------------------------------------
\* claims about the Catalog Lookup, under CatalogSpec

\* the provider failed: no usable answer, or an answer with a malformed item
ProviderFailure(reply) ==
    \/ reply.kind # "object"
    \/ \E k \in 1..Len(reply.items) : ItemError(reply.items[k]) # None

\* C29: whatever way the provider fails (transport error, error status,
\* undecodable body, decoded body with malformed items), search_books
\* returns an empty list and raises nothing.
C29_FailureGivesEmptyList ==
    (lret.op = "search_books" /\ ProviderFailure(lret.reply))
        => lret.result = Returned(<<>>)

\* ------------------------------------------------------------------
\* claims about search requests, under SearchSpec

\* C30: every search request comes to its end, also when the provider never
\* answers: a request that waits for the provider is eventually over.
C30_SearchCompletes ==
    \A p \in Procs : (lpc[p] = "waiting") ~> (lpc[p] = "idle")

\* a request that has the provider's answer is eventually over
AnsweredSearchCompletes ==
    \A p \in Procs : (lpc[p] = "answered") ~> (lpc[p] = "idle")

\* ------------------------------------------------------------------
\* claims about the handlers of app.py, under SessionSpec

HandlerOps ==
    {"app.index", "app.search", "app.favorites", "app.remove_favorites",
     "app.add_favorite", "app.bookmark", "app.update_current_page", "app.learnings"}

\* C23: a handler called without a user id in the session reads and writes
\* neither the ledger nor the accounts and answers with a redirect, and the
\* ledger never has an entry under the key of an absent user id.
C23_NoSessionNoAccess ==
    /\ Str(NoUser) \notin DOMAIN load_all_favorites(file)
    /\ (lret.op \in HandlerOps /\ lret.session = None)
          => (lret.status = 302 /\ lret.calls = <<>>)

\* C24: a request that is rejected for validation changes nothing: an
\* add_favorite answered with 400 adds none of the selected books, and an
\* update_current_page answered with 400 changes neither ledger nor streak.
C24_RejectedChangesNothing ==
    [][/\ \A s \in SessionsOf(users), b \in Selections :
            (app_add_favorite(s, b) /\ lret'.status = 400)
                => (file' = file /\ users' = users)
       /\ \A s \in SessionsOf(users), t \in PageTexts :
            (app_update_current_page(s, "123", t, FALSE) /\ lret'.status = 400)
                => (file' = file /\ users' = users /\ ret' = ret)]_vars

\* ------------------------------------------------------------------
\* claims about get_user_streak_data, under ReadSpec

\* C28: get_streak changes nothing that is stored; for a user that has a
\* record it returns the stored (current, longest, last_read_date) of that
\* record, and for an id without a record it returns (0, 0, absent).
C28_GetStreakReadOnly ==
    [][\A id \in UserIds :
          get_user_streak_data(id) =>
              /\ users' = users
              /\ file' = file
              /\ ret'.result =
                    IF \E i \in 1..Len(users) : users[i].id = id
                    THEN LET row == users[CHOOSE i \in 1..Len(users) : users[i].id = id]
                         IN  [current_streak |-> row.current_streak,
                              longest_streak |-> row.longest_streak,
                              last_read_date |-> row.last_read_date]
                    ELSE [current_streak |-> 0, longest_streak |-> 0,
                          last_read_date |-> None]]_vars

\* the streak of the second of two accounts was read after it was set, and
\* it differs from the first account's
C28_Witness ==
    /\ ret.op = "get_streak"
    /\ Len(users) = 2
    /\ ret.user_id = 2
    /\ users[2].last_read_date # None
    /\ users[2].last_read_date # users[1].last_read_date
    /\ ret.result.last_read_date = users[2].last_read_date

\* ------------------------------------------------------------------
\* claims about storage faults, under FaultSpec

\* C26: a storage fault outside registration and table setup is not
\* propagated and changes nothing that is stored: authenticate returns
\* absent, update_streak the zeroed values with the error status, get_streak
\* the zeroed defaults, a ledger read the empty collection, and a ledger
\* mutation returns without raising.
C26_FaultsDegrade ==
    [][/\ \A u \in Usernames, f \in DbFaults :
            authenticate_user_fault(u, "pw1", f) =>
                (ret'.raised = None /\ ret'.result = None /\ users' = users)
       /\ \A id \in UserIds, f \in DbFaults :
            update_reading_streak_fault(id, f) =>
                (ret'.raised = None /\ ret'.result = Some(StreakError) /\ users' = users)
       /\ \A id \in UserIds, f \in DbFaults :
            get_user_streak_data_fault(id, f) =>
                /\ ret'.raised = None
                /\ ret'.result = Some([current_streak |-> 0, longest_streak |-> 0,
                                       last_read_date |-> None])
                /\ users' = users
       /\ \A u \in LedgerUserIds :
            load_user_favorites_fault(u) =>
                (lret'.raised = None /\ lret'.result = <<>> /\ file' = file)
       /\ \A c \in Calls, f \in LedgerWriteFaults :
            ledger_call_fault(c, f) => (lret'.raised = None /\ file' = file)]_vars

\* C27: a storage fault during register or during table setup reaches the
\* caller as an exception, and the accounts stay as they were.
C27_SetupFaultsPropagate ==
    [][/\ \A u \in Usernames, f \in DbFaults :
            register_user_fault(u, "pw1", f) => (ret'.raised # None /\ users' = users)
       /\ \A f \in DbFaults :
            create_user_table_fault(f) => (ret'.raised # None /\ users' = users)
       /\ \A f \in DbFaults :
            create_database_tables_fault(f) => (ret'.raised # None /\ users' = users)]_vars

\* ------------------------------------------------------------------
\* claims about the stored streak fields, under Spec

\* C33: a stored record has no last_read_date exactly when its
\* current_streak is 0; a record that has a last_read_date has current and
\* longest streak of at least 1; the record of a register that has just
\* succeeded is (absent, 0, 0).
C33_DateIffStreak ==
    /\ \A i \in 1..Len(users) :
          /\ (users[i].last_read_date = None) <=> (users[i].current_streak = 0)
          /\ users[i].last_read_date # None =>
                (users[i].current_streak >= 1 /\ users[i].longest_streak >= 1)
    /\ (ret.op = "register" /\ ret.result = "True") =>
          /\ users[Len(users)].last_read_date = None
          /\ users[Len(users)].current_streak = 0
          /\ users[Len(users)].longest_streak = 0

\* an account with a streak of two days that was reset later, next to an
\* account that has just been made
C33_Witness ==
    /\ Len(users) = 2
    /\ users[1].last_read_date # None
    /\ users[1].current_streak = 1 /\ users[1].longest_streak = 2
    /\ ret.op = "register" /\ ret.result = "True"
    /\ users[2].last_read_date = None

\* ------------------------------------------------------------------
\* claims about the longest streak, under ReadSpec

\* C34: no call makes the stored longest_streak of a user smaller, on
\* whatever days the updates are made (days that go backwards included),
\* and no record goes away.
C34_LongestNeverDecreases ==
    [][/\ Len(users') >= Len(users)
       /\ \A i \in 1..Len(users) :
             users'[i].longest_streak >= users[i].longest_streak]_vars

\* an update made on a day before the user's last read day reset a streak
\* of two days, and the longest streak is still 2
C34_Witness ==
    /\ ret.op = "update_streak"
    /\ ret.user_data # None
    /\ ret.user_data[1].last_read_date # None
    /\ Strptime(ret.user_data[1].last_read_date) > now
    /\ ret.user_data[1].current_streak = 2
    /\ ret.user_id \in 1..Len(users)
    /\ users[ret.user_id].current_streak = 1
    /\ users[ret.user_id].longest_streak = 2

\* ------------------------------------------------------------------
\* claims about the other users' lists, under LedgerSpec

\* C35: with calls made one at a time and no storage fault, a mutation made
\* for one user (add, remove, set note, set page) leaves the list of every
\* other user as it was and neither makes nor removes another user's key.
C35_OtherUsersUntouched ==
    [][\A u \in LedgerUserIds :
          LET before == load_all_favorites(file)
              after == load_all_favorites(file')
              untouched == \A k \in (DOMAIN before \cup DOMAIN after) \ {Str(u)} :
                              /\ k \in DOMAIN before
                              /\ k \in DOMAIN after
                              /\ after[k] = before[k]
          IN  \/ untouched
              \/ ~ \/ \E i \in PicksOf(u) : save_favorite(u, BookDetails(i))
                   \/ \E i \in LedgerIsbns, n \in Notes : save_learning(u, i, n)
                   \/ \E r \in SUBSET LedgerIsbns \ {{}} : remove_favorites(u, r)
                   \/ \E i \in LedgerIsbns, c \in Pages :
                          update_current_page(u, i, c)]_vars

\* the first user removed both books while the second user's list holds a
\* book with a page
C35_Witness ==
    /\ lret.op = "remove_favorites"
    /\ lret.log.event = "removed"
    /\ lret.log.removed_count = 2
    /\ FavoritesOf(load_all_favorites(file), 1) = <<>>
    /\ Len(FavoritesOf(load_all_favorites(file), 2)) = 1
    /\ FavoritesOf(load_all_favorites(file), 2)[1].current_page # None

\* ------------------------------------------------------------------
\* claims about a failed read of the ledger, under FaultSpec

\* C36: an add whose read of the ledger file failed (the loader gave it an
\* empty mapping) loses nothing: every entry that was stored before the add
\* is stored after it.
C36_FailedReadLosesNothing ==
    [][\A c \in {x \in Calls : x.op = "save_favorite"} :
          ledger_call_fault(c, "read") =>
              LET before == load_all_favorites(file)
                  after == load_all_favorites(file')
              IN  \A k \in DOMAIN before :
                     /\ k \in DOMAIN after
                     /\ IsbnsIn(before[k]) \subseteq IsbnsIn(after[k])]_vars

\* ------------------------------------------------------------------
\* claims about what changes a record's streak fields, under FrameSpec

\* the streak fields of a row
StreakFields(row) == <<row.last_read_date, row.current_streak, row.longest_streak>>

\* C31: the streak fields of a record change only in an update_streak for
\* the user of that record: register (of any username), authenticate,
\* get_streak, the calls of the ledger and an update_streak for another user
\* leave them as they are; and no call removes a record.
C31_StreakFieldsFrame ==
    [][/\ Len(users') >= Len(users)
       /\ \A i \in 1..Len(users) :
             /\ users'[i].id = users[i].id
             /\ users'[i].username = users[i].username
             /\ StreakFields(users'[i]) # StreakFields(users[i])
                   => update_reading_streak(users[i].id)]_vars

\* the second account's streak was updated while the first account's has
\* never been, after both were authenticated and have a book in the ledger
C31_Witness ==
    /\ Len(users) = 2
    /\ ret.op = "update_streak" /\ ret.user_id = 2
    /\ users[2].current_streak = 1
    /\ StreakFields(users[1]) = <<None, 0, 0>>
    /\ \A u \in LedgerUserIds : Len(FavoritesOf(load_all_favorites(file), u)) = 1

\* ------------------------------------------------------------------
\* claims about streak updates made at the same time, under DaySpec

\* C32 as stated: within one day the current_streak of a user goes up by
\* at most 1 in all, however many update_streak calls are made for the user
\* and however their SELECT and UPDATE steps interleave.
C32_AtMostOnePerDay ==
    \A i \in 1..Len(users) :
        users[i].current_streak <= dayStart[users[i].id].current_streak + 1

\* C32 amended: the same, on a day on which no call that did its SELECT
\* before the day began has written the user's row.
C32_AtMostOnePerDayOwnCalls ==
    \A i \in 1..Len(users) :
        ~dayStart[users[i].id].late_write =>
            users[i].current_streak <= dayStart[users[i].id].current_streak + 1

\* the day began with a streak of 1 read the day before; two calls of the
\* day read that row, one has written a streak of 2 and the other is about
\* to write
C32_Witness ==
    /\ Len(users) = 1
    /\ dayStart[1].current_streak = 1
    /\ ~dayStart[1].late_write
    /\ users[1].current_streak = 2
    /\ users[1].last_read_date = Strftime(now)
    /\ \E p \in Procs :
          /\ pc[p] = "update"
          /\ ~loc[p][1].late
          /\ loc[p][1].user_data[1].current_streak = 1
          /\ loc[p][1].result.streak_status = "continued"

====
